---------------------------- MODULE Spec2Model ----------------------------
(***************************************************************************)
(* A model of the streaming highlight iterator of tree-sitter-highlight    *)
(* (src/highlight/src/lib.rs).                                             *)
(*                                                                         *)
(* The parse tree and the query engine are external: a layer's `captures`  *)
(* is a lazy, peekable stream.  The model keeps the peeked head of each    *)
(* stream and lets the query cursor deliver any later capture that the     *)
(* stream order allows (ascending start byte, then ascending pattern       *)
(* index) whenever the code calls `captures.next()`.                       *)
(*                                                                         *)
(* One loop iteration of HighlightIter::next is split at the places where  *)
(* the code pulls from the stream: `pc` names the place.                   *)
(***************************************************************************)
EXTENDS Integers, Sequences, FiniteSets, TLC

\* ------------------------------------------------------------------ bounds
MaxSrc == 2          \* longest source, in bytes
MaxCaps == 3         \* captures the root layer's stream delivers at most
MaxInjCaps == 1      \* captures an injected layer's stream delivers at most
MaxLocalCaps == 5    \* captures the stream of a "script" document delivers at most
MaxCancelCaps == 2   \* captures the root layer's stream delivers at most under a flag
MaxNameLen == 3      \* characters of a highlight name or capture name at most
MaxNames == 2        \* recognized highlight names at most
MaxGroupCaps == 3    \* captures the stream of a "sites" document delivers at most
MaxNestedCaps == 2   \* captures the stream of a "nested" document delivers at most
MaxScopeSrc == 3     \* bytes of the source of a "blocks" document
MaxScopeCaps == 4    \* captures the stream of a "blocks" document delivers at most
MaxQueryLen == 2     \* longest text of one of the three queries, in bytes
MaxRenderSrc == 2    \* longest source handed to the renderer, in bytes
MaxRuns == 2         \* runs of generate_parser_in_directory in one directory
MaxEvents == 4       \* events the iterator handed to the renderer yields at most
MaxPos == 4          \* largest byte position of a node passed to intersect_ranges
MaxParents == 2      \* parent ranges of a layer at most
MaxNodes == 2        \* content nodes of an injection at most
MaxChildren == 2     \* direct children of a content node at most

\* ------------------------------------------------------- program constants
CANCELLATION_CHECK_INTERVAL == 100

None == -1                       \* Option::None of a usize / Highlight
Alphabet == {"a", "b"}

Max(a, b) == IF a < b THEN b ELSE a
Last(s) == s[Len(s)]
Front(s) == SubSeq(s, 1, Len(s) - 1)

\* --------------------------------------------------------- configuration
\* One HighlightConfiguration, shared by the root and the injected language.
\* Patterns, in the order of the concatenated query source:
\*   0  injection                       (injections section)
\*   1  injection, a second pattern
\*   2  local.scope                     (locals section)
\*   3  local.scope, local.scope-inherits = false
\*   4  local.definition [+ local.definition-value]
\*   5  local.reference
\*   6  local.definition                (a definition pattern after the reference pattern)
\*   7  @variable, carrying the negative `local` property   (highlights section)
\*   8  @function
\*   9  @comment, a name the Highlighter does not recognize
\*   10 @type
locals_pattern_index == 2
highlights_pattern_index == 7

\* Capture ids of the combined query.
injection_site_capture_index == 0
local_scope_capture_index == 1
local_def_capture_index == 2
local_def_value_capture_index == 3
local_ref_capture_index == 4
VariableCapture == 5
FunctionCapture == 6
CommentCapture == 7
TypeCapture == 8

\* highlight_indices[c]: Highlighter names are <<"variable", "function", "type">>.
highlight_indices(c) ==
    IF c = VariableCapture THEN 0
    ELSE IF c = FunctionCapture THEN 1
    ELSE IF c = TypeCapture THEN 2
    ELSE None

non_local_variable_patterns(p) == p = 7

\* property_settings(pattern): the value of local.scope-inherits.
ScopeInherits(p) == p # 3


\* ------------------------------------------------------------ parse trees
USIZE_MAX == 2147483647

\* A node is its byte range.  The nodes of a tree over n bytes: the leaves
\* [i, i+1) and the right spine [i, n), a family in which any two nodes are
\* nested or disjoint, and in which a node and its first child start at the
\* same byte.
Nodes(n) ==
    {[s |-> i, e |-> i + 1] : i \in 0 .. n - 1} \cup {[s |-> i, e |-> n] : i \in 0 .. n - 1}

\* The nodes of such a tree that a query for blocks captures: the first
\* leaf, its sibling [1, n) and the last leaf; no two start at the same byte.
BlockNodes(n) ==
    {[s |-> 0, e |-> 1], [s |-> 1, e |-> n], [s |-> n - 1, e |-> n]}

\* The nodes of the tree parsed with the given included ranges.  An empty
\* range list makes the parser read the whole document.
LayerNodes(ranges, n) ==
    IF ranges = <<>> THEN Nodes(n)
    ELSE {m \in Nodes(n) : m.s >= ranges[1].s /\ m.e <= Last(ranges).e}

\* --------------------------------------------------------------- streams
\* What injections_cursor.matches(injections_query, site_node) finds below an
\* injection site, by variant:
\*   "plain"    pattern 0; a known language; content = the site node
\*   "kids"     the same, the content node being covered by one child
\*   "unknown"  pattern 0; a language injection_callback does not know
\*   "both"     patterns 0 and 1, each as in "plain"
\*   "missing"  pattern 0 without a language; pattern 1 as in "plain"
\*   "unresolved"  pattern 0 as in "unknown"; pattern 1 as in "plain"
\*   "empty"    pattern 0 without a content node; pattern 1 as in "plain"
InjVariants == {"plain", "kids", "unknown", "both", "missing", "unresolved", "empty"}

\* The variants in which the second injection pattern matches the site.
TwoPatterns == {"both", "missing", "unresolved", "empty"}

\* An element of a capture stream: (match, capture index).
\*   node     m.captures[i].node
\*   pattern  m.pattern_index
\*   index    m.captures[i].index
\*   value    the node of the match's local.definition-value capture, <<>> if none
\*   inj      what the injections query finds below the node (injection patterns)
Item(node, pattern, index, value, inj) ==
    [node |-> node, pattern |-> pattern, index |-> index, value |-> value, inj |-> inj]

InjectionItems(nodes, variants) ==
    {Item(m, 0, injection_site_capture_index, <<>>, v) : m \in nodes, v \in variants}
    \cup {Item(m, 1, injection_site_capture_index, <<>>, v) :
            m \in nodes, v \in variants \cap TwoPatterns}

LocalItems(nodes) ==
    {Item(m, p, local_scope_capture_index, <<>>, "") : m \in nodes, p \in {2, 3}}
    \cup {Item(m, 4, local_def_capture_index, <<>>, "") : m \in nodes}
    \cup {Item(mv[1], 4, local_def_capture_index, <<mv[2]>>, "") :
            mv \in {x \in nodes \X nodes : x[2].s >= x[1].e}}
    \cup {Item(m, 4, local_def_value_capture_index, <<m>>, "") : m \in nodes}
    \cup {Item(m, 5, local_ref_capture_index, <<>>, "") : m \in nodes}
    \cup {Item(m, 6, local_def_capture_index, <<>>, "") : m \in nodes}

\* The local captures of a document whose definitions have no value node and
\* no second definition pattern.
PlainLocalItems(nodes) ==
    {c \in LocalItems(nodes) : c.pattern \in {4, 5} /\ c.value = <<>>}

\* The capture of highlight pattern p has capture id p - 2.
HighlightItems(nodes, patterns) ==
    {Item(m, p, p - 2, <<>>, "") : m \in nodes, p \in patterns}

\* The captures of the first injection pattern.
FirstMatches(items) == {c \in items : c.pattern = 0}

\* The captures a layer's stream can hold, by the kind of its document:
\*   "mixed"     injection sites of one pattern, plain local variables, highlights
\*   "sites"     injection sites of one or two patterns, one highlight pattern
\*   "embedded"  a document injected into a "mixed" one: highlights only
\*   "quoted"    a document injected into a "sites" one: one highlight pattern
\*   "nested"    injection sites whose injected documents are "inner" ones
\*   "inner"     a document injected into a "nested" one: injection sites of
\*               two patterns, one highlight pattern
\*   "bare"      a document injected into an "inner" one: nothing is captured
\*   "script"    local variables and highlights, no injection site
\*   "blocks"    inheriting scopes, definitions, references, one highlight pattern
ItemsAt(doc, ranges, n) ==
    LET nodes == LayerNodes(ranges, n) IN
    CASE doc = "mixed" ->
           InjectionItems(nodes, InjVariants \ TwoPatterns) \cup PlainLocalItems(nodes)
              \cup HighlightItems(nodes, {7, 8, 9})
      [] doc = "sites" ->
           InjectionItems(nodes, TwoPatterns) \cup HighlightItems(nodes, {8})
      [] doc = "quoted" -> HighlightItems(nodes, {8})
      [] doc = "nested" ->
           FirstMatches(InjectionItems(nodes, {"both", "kids"}))
              \cup HighlightItems(nodes, {8})
      [] doc = "inner" ->
           FirstMatches(InjectionItems(nodes, {"both"})) \cup HighlightItems(nodes, {8})
      [] doc = "bare" -> {}
      [] doc = "script" -> LocalItems(nodes) \cup HighlightItems(nodes, {7, 8, 10})
      [] doc = "blocks" ->
           {c \in LocalItems(nodes \cap BlockNodes(n)) :
               c.pattern \in {2, 4, 5} /\ c.value = <<>>}
              \cup HighlightItems(nodes \cap BlockNodes(n), {8})
      [] OTHER -> HighlightItems(nodes, {7, 8, 9})

\* QueryCaptures yields captures by start byte, then by pattern index.
Follows(c, d) ==
    \/ c.node.s < d.node.s
    \/ c.node.s = d.node.s /\ c.pattern <= d.pattern


\* The kind of the documents injected into a document of kind `doc`.
Injected(doc) ==
    CASE doc = "sites" -> "quoted"
      [] doc = "nested" -> "inner"
      [] doc = "inner" -> "bare"
      [] OTHER -> "embedded"

\* The `injections` vector that next() builds from the matches of the
\* injections query below a site node: one entry per pattern, with the
\* language name ("none" if there is none; resolved by injection_callback or
\* not), the content nodes (each with the ranges of its children) and the
\* include-children flag.
Injections(item) ==
    LET plain == [s |-> item.node.s, e |-> item.node.e, children |-> <<>>]
        covered == [s |-> item.node.s, e |-> item.node.e,
                    children |-> <<[s |-> item.node.s, e |-> item.node.e]>>]
        group(language, content) ==
            [language |-> language, content |-> content, include_children |-> FALSE]
    IN CASE item.inj = "plain" -> <<group("known", <<plain>>)>>
         [] item.inj = "kids" -> <<group("known", <<covered>>)>>
         [] item.inj = "unknown" -> <<group("unknown", <<plain>>)>>
         [] item.inj = "both" -> <<group("known", <<plain>>), group("known", <<plain>>)>>
         [] item.inj = "missing" -> <<group("none", <<plain>>), group("known", <<plain>>)>>
         [] item.inj = "unresolved" ->
              <<group("unknown", <<plain>>), group("known", <<plain>>)>>
         [] item.inj = "empty" -> <<group("known", <<>>), group("known", <<plain>>)>>
         [] OTHER -> <<>>

\* ------------------------------------------------------- intersect_ranges
\* st = [result, pi, done]: the result so far, the index of parent_range in
\* the parent's ranges, and whether the function has returned.
RECURSIVE IntersectWhile(_, _, _)
IntersectWhile(P, st, range) ==
    LET pr == P[st.pi]
        advance(st2, r2) ==
            IF st2.pi < Len(P)
            THEN IntersectWhile(P, [st2 EXCEPT !.pi = @ + 1], r2)
            ELSE [st2 EXCEPT !.done = TRUE]
    IN IF ~(pr.s <= range.e) THEN st
       ELSE IF pr.e > range.s
       THEN LET r1 == IF range.s < pr.s THEN [range EXCEPT !.s = pr.s] ELSE range IN
            IF pr.e < r1.e
            THEN advance([st EXCEPT !.result =
                              IF r1.s < pr.e THEN Append(@, [s |-> r1.s, e |-> pr.e]) ELSE @],
                         [r1 EXCEPT !.s = pr.e])
            ELSE [st EXCEPT !.result = IF r1.s < r1.e THEN Append(@, r1) ELSE @]
       ELSE advance(st, range)

RECURSIVE IntersectExcluded(_, _, _, _, _)
IntersectExcluded(P, st, preceding_end, excluded, k) ==
    IF st.done \/ k > Len(excluded) THEN st
    ELSE LET range == [s |-> preceding_end, e |-> excluded[k].s]
             st2 == IF range.e < P[st.pi].s THEN st ELSE IntersectWhile(P, st, range)
         IN IntersectExcluded(P, st2, excluded[k].e, excluded, k + 1)

RECURSIVE IntersectNodes(_, _, _, _, _)
IntersectNodes(P, st, nodes, includes_children, k) ==
    IF st.done \/ k > Len(nodes) THEN st
    ELSE LET node == nodes[k]
             following_range == [s |-> node.e, e |-> USIZE_MAX]
             excluded == (IF includes_children THEN <<>> ELSE node.children)
                            \o <<following_range>>
         IN IntersectNodes(P, IntersectExcluded(P, st, node.s, excluded, 1),
                           nodes, includes_children, k + 1)

intersect_ranges(parent_ranges, nodes, includes_children) ==
    IntersectNodes(parent_ranges, [result |-> <<>>, pi |-> 1, done |-> FALSE],
                   nodes, includes_children, 1).result

\* --------------------------------------------------------------- layers
RootScope == [inherits |-> FALSE, range |-> [s |-> 0, e |-> USIZE_MAX], local_defs |-> <<>>]

\* HighlightIterLayer::new, once the tree is parsed: `captures` is the peeked
\* head of the stream (<<>>: exhausted), `fuel` the captures the stream may
\* still deliver after the head.
NewLayer(head, fuel, doc, depth, ranges) ==
    [captures |-> head, fuel |-> fuel, doc |-> doc, highlight_end_stack |-> <<>>,
     scope_stack |-> <<RootScope>>, ranges |-> ranges, depth |-> depth]

\* Option<(usize, bool, isize)>: <<>> is None, false is 0 and true is 1.
sort_key(layer) ==
    LET depth == -layer.depth
        next_start == IF layer.captures # <<>> THEN layer.captures[1].node.s ELSE None
        next_end == IF layer.highlight_end_stack # <<>>
                    THEN Last(layer.highlight_end_stack) ELSE None
    IN IF next_start # None /\ next_end # None
       THEN IF next_start < next_end
            THEN <<next_start, 1, depth>>
            ELSE <<next_end, 0, depth>>
       ELSE IF next_start # None THEN <<next_start, 1, depth>>
       ELSE IF next_end # None THEN <<next_end, 0, depth>>
       ELSE <<>>

\* The derived order of tuples, and of Options (None before Some).
KeyLess(a, b) ==
    \/ a[1] < b[1]
    \/ a[1] = b[1] /\ a[2] < b[2]
    \/ a[1] = b[1] /\ a[2] = b[2] /\ a[3] < b[3]

OptionLess(a, b) == b # <<>> /\ (a = <<>> \/ KeyLess(a, b))

\* sort_layers: [layers, retired], retired being the cursors handed back.
RECURSIVE SortScan(_, _, _)
SortScan(ls, key, i) ==
    IF i + 1 <= Len(ls) /\ sort_key(ls[i + 1]) # <<>> /\ KeyLess(sort_key(ls[i + 1]), key)
    THEN SortScan(ls, key, i + 1)
    ELSE i

sort_layers(ls) ==
    IF sort_key(ls[1]) # <<>>
    THEN LET i == SortScan(ls, sort_key(ls[1]), 1) IN
         [layers |-> IF i > 1
                     THEN SubSeq(ls, 2, i) \o <<ls[1]>> \o SubSeq(ls, i + 1, Len(ls))
                     ELSE ls,
          retired |-> 0]
    ELSE [layers |-> Tail(ls), retired |-> 1]

RECURSIVE InsertScan(_, _, _)
InsertScan(ls, key, i) ==
    IF i <= Len(ls) /\ ~OptionLess(key, sort_key(ls[i]))
    THEN InsertScan(ls, key, i + 1)
    ELSE i

\* The insertion that looks at layers[0] too.
insert_from_front(ls, layer) ==
    LET i == InsertScan(ls, sort_key(layer), 1) IN
    SubSeq(ls, 1, i - 1) \o <<layer>> \o SubSeq(ls, i, Len(ls))

\* `for i in 1..self.layers.len()`: the layer goes behind layers[0].
insert_layer(ls, layer) ==
    LET i == InsertScan(ls, sort_key(layer), 2) IN
    SubSeq(ls, 1, i - 1) \o <<layer>> \o SubSeq(ls, i, Len(ls))

\* ------------------------------------------------------------------ state
VARIABLES
    source,                 \* HighlightIter.source
    byte_offset,            \* HighlightIter.byte_offset
    layers,                 \* HighlightIter.layers
    cursors,                \* the length of HighlightContext.cursors
    next_event,             \* HighlightIter.next_event: <<>> or <<event>>
    last_highlight_range,   \* <<>> or <<start, end, depth>>
    iter_count,             \* HighlightIter.iter_count
    cancellation_flag,      \* None: no flag supplied; else the value of the atomic
    pc,                     \* where next() is: "top", "locals", "check", "skip"
    capture,                \* the local `capture` (with its match): <<>> or <<item>>
    reference_highlight,    \* the local of that name: None or a highlight
    definition_highlight,   \* whether the local of that name is Some; it then
                            \* refers to the last definition of the top scope
    has_highlight,          \* the local of that name
    ret,                    \* history: what the last step returned to the caller
    failed,                 \* history: next() has returned an Err
    src_end,                \* history: the end of the last Source event returned
    src_ok,                 \* history: the Source events returned so far are
                            \* non-empty and contiguous from byte 0
    resolved,               \* history: the last reference lookup
    boundary,               \* history, by anchor offset: the last HighlightStart or
                            \* HighlightEnd returned before `ret`, <<>> if none
    registry,               \* Highlighter.highlight_names, a capture name of the
                            \* query and its entry of highlight_indices
    intersection,           \* a call of HighlightIterLayer::intersect_ranges: its
                            \* arguments and how it ended
    discovery,              \* history: the sites whose injections were looked for,
                            \* and what the last such search made of its groups
    started,                \* history: the nodes (with the depth of their layer) a
                            \* HighlightStart was emitted for, and whether one
                            \* of them had it twice
    renderer,               \* an HtmlRenderer, with the locals of its render()
    parser,                 \* HighlightContext.parser: whether it can give no tree
                            \* without being cancelled; history: why the last
                            \* search for injections could not construct a
                            \* layer, and the error that came of it
    repo                    \* the directory of a grammar: its files, and the run
                            \* of generate_parser_in_directory under way

vars == <<source, byte_offset, layers, cursors, next_event, last_highlight_range,
          iter_count, cancellation_flag, pc, capture, reference_highlight,
          definition_highlight, has_highlight, ret, failed, src_end, src_ok, resolved,
          boundary, registry, intersection, discovery, started, renderer, parser,
          repo>>

\* What a step hands to the caller.  `at` and `depth` of a highlight event are
\* history: the offset the event was emitted for and the depth of its layer;
\* so is `b` of a HighlightStart: the highlight of the capture itself.
Event(kind, a, b, at, depth) == [kind |-> kind, a |-> a, b |-> b, at |-> at, depth |-> depth]
SourceEvent(start, end) == Event("Source", start, end, None, None)
HighlightStart(h, current, at, depth) == Event("HighlightStart", h, current, at, depth)
HighlightEnd(at, depth) == Event("HighlightEnd", None, None, at, depth)
ErrCancelled == Event("Err(Cancelled)", None, None, None, None)
ErrInvalidLanguage == Event("Err(InvalidLanguage)", None, None, None, None)
ReturnedNone == Event("None", None, None, None, None)
Continue == Event("continue", None, None, None, None)
NotCalled == Event("new", None, None, None, None)
ErrKinds == {"Err(Cancelled)", "Err(InvalidLanguage)"}

\* Source texts: up to MaxSrc bytes; a renaming of the bytes changes nothing,
\* so the first byte is fixed.
RECURSIVE SeqsOf(_, _)
SeqsOf(S, n) ==
    IF n = 0 THEN {<<>>}
    ELSE LET shorter == SeqsOf(S, n - 1) IN
         shorter \cup {Append(q, x) : q \in {r \in shorter : Len(r) = n - 1}, x \in S}

Sources == {q \in SeqsOf(Alphabet, MaxSrc) : q = <<>> \/ q[1] = "a"}

\* The heads a fresh stream can show: nothing, or any capture of the layer.
FirstHeads(doc, ranges, n) ==
    {<<>>} \cup {<<c>> : c \in ItemsAt(doc, ranges, n)}

\* The injections query finds the same below a site node each time.
SameInjections(x) ==
    \A d \in discovery.seen : x.pattern < locals_pattern_index /\ d.node = x.node
                                   => d.inj = x.inj

\* captures.next(): the layer once the head is consumed and the stream has
\* shown its next head.
AfterNext(layer, n) ==
    {[layer EXCEPT !.captures = <<>>, !.fuel = 0]}
    \cup IF layer.fuel > 0
         THEN {[layer EXCEPT !.captures = <<d>>, !.fuel = @ - 1] :
                 d \in {x \in ItemsAt(layer.doc, layer.ranges, n) :
                          Follows(layer.captures[1], x) /\ SameInjections(x)}}
         ELSE {}

\* No reference has been looked up in this pass of the loop.
NoLookup == [looked |-> FALSE, found |-> FALSE, start |-> None, scope |-> 0, def |-> 0,
             highlight |-> None, redefined |-> FALSE]

HighlightKinds == {"HighlightStart", "HighlightEnd"}

\* The history of what is returned.
Returned(event) ==
    /\ ret' = event
    /\ failed' = (failed \/ event.kind \in ErrKinds)
    /\ src_end' = IF event.kind = "Source" THEN event.b ELSE src_end
    /\ src_ok' = (src_ok /\ (event.kind = "Source" =>
                                event.a = src_end /\ event.a < event.b))
    /\ boundary' = IF ret.kind \in HighlightKinds
                   THEN [boundary EXCEPT ![ret.at] = <<[kind |-> ret.kind, depth |-> ret.depth]>>]
                   ELSE boundary
    /\ UNCHANGED <<registry, intersection>>

\* The step panics: nothing is returned.
Panicked ==
    UNCHANGED <<ret, failed, src_end, src_ok, boundary, registry, intersection>>

\* A return from a step that looks for no injection.
Returns(event) == Returned(event) /\ UNCHANGED <<discovery, parser, repo>>

\* A parser that gives no tree only when it is cancelled, and one that can
\* give no tree for another reason; no layer has failed.
Sound == [frail |-> FALSE, cause |-> "none", error |-> "none"]
Frail == [frail |-> TRUE, cause |-> "none", error |-> "none"]

\* The configuration the iterator runs with is loaded; the registry is at rest.
Loaded == [highlight_names |-> <<>>, capture_name |-> <<>>, highlight_index |-> None,
           injection_captures |-> {}, other_captures |-> {},
           query_disabled |-> {}, injections_query_disabled |-> {},
           injection_query |-> <<>>, locals_query |-> <<>>, highlights_query |-> <<>>,
           locals_pattern_index |-> 0, highlights_pattern_index |-> 0,
           query_error |-> None, loaded |-> TRUE]

\* No call of intersect_ranges is being looked at.
NoCall == [parent_ranges |-> <<>>, nodes |-> <<>>, includes_children |-> FALSE,
           result |-> <<>>, state |-> "none"]

\* No directory of a grammar is looked at.
NoRepo == [files |-> <<>>, pc |-> "none"]

\* HtmlRenderer::new, no render() under way.
HtmlRenderer_new == [html |-> <<>>, line_offsets |-> <<0>>, highlights |-> <<>>,
                     source |-> <<>>, input |-> <<>>, events |-> <<>>, result |-> "none"]

\* No node has been highlighted.
NoneStarted == [nodes |-> {}, twice |-> FALSE]

\* No injection has been looked for.
NoDiscovery == [seen |-> {}, again |-> FALSE, site |-> <<>>, groups |-> <<>>,
                made |-> {}, failed_at |-> 0, by |-> <<>>, new_layers |-> <<>>,
                panicked |-> FALSE]

\* Highlighter::highlight: the iterator as constructed, over one of the
\* given sources and any stream of the root layer of a document of kind `doc`.
HighlightIter_new(sources, doc, caps, flags) ==
    /\ source \in sources
    /\ byte_offset = 0
    /\ \E head \in FirstHeads(doc, <<[s |-> 0, e |-> USIZE_MAX]>>, Len(source)) :
          layers = <<NewLayer(head, IF head = <<>> THEN 0 ELSE caps - 1, doc, 0,
                              <<[s |-> 0, e |-> USIZE_MAX]>>)>>
    /\ cursors = 0
    /\ next_event = <<>>
    /\ last_highlight_range = <<>>
    /\ iter_count = 0
    /\ cancellation_flag \in flags
    /\ pc = "top"
    /\ capture = <<>>
    /\ reference_highlight = None
    /\ definition_highlight = FALSE
    /\ has_highlight = FALSE
    /\ ret = NotCalled
    /\ failed = FALSE
    /\ src_end = 0
    /\ src_ok = TRUE
    /\ resolved = NoLookup
    /\ boundary = [a \in 0 .. Len(source) |-> <<>>]
    /\ started = NoneStarted
    /\ renderer = HtmlRenderer_new
    /\ repo = NoRepo
    /\ registry = Loaded
    /\ intersection = NoCall
    /\ discovery = NoDiscovery

\* The same over any source of up to MaxSrc bytes.
Highlighter_highlight(doc, caps, flags) == HighlightIter_new(Sources, doc, caps, flags)

\* Without a cancellation flag.
Init == Highlighter_highlight("mixed", MaxCaps, {None}) /\ parser = Sound

\* ------------------------------------------------------------- emit_event
\* emit_event without `self.byte_offset = offset`.
emit_event_stale(offset, event, ls) ==
    /\ IF byte_offset < offset
       THEN /\ Returns(SourceEvent(byte_offset, offset))
            /\ next_event' = event
            /\ UNCHANGED byte_offset
       ELSE /\ Returns(IF event = <<>> THEN ReturnedNone ELSE event[1])
            /\ UNCHANGED <<byte_offset, next_event>>
    /\ layers' = sort_layers(ls).layers
    /\ cursors' = cursors + sort_layers(ls).retired

\* emit_event without `self.next_event = event`.
emit_event_unbuffered(offset, event, ls) ==
    /\ IF byte_offset < offset
       THEN /\ Returns(SourceEvent(byte_offset, offset))
            /\ byte_offset' = offset
            /\ next_event' = <<>>
       ELSE /\ Returns(IF event = <<>> THEN ReturnedNone ELSE event[1])
            /\ UNCHANGED <<byte_offset, next_event>>
    /\ layers' = sort_layers(ls).layers
    /\ cursors' = cursors + sort_layers(ls).retired

emit_event(offset, event, ls) ==
    /\ IF byte_offset < offset
       THEN /\ Returns(SourceEvent(byte_offset, offset))
            /\ byte_offset' = offset
            /\ next_event' = event
       ELSE /\ Returns(IF event = <<>> THEN ReturnedNone ELSE event[1])
            /\ UNCHANGED <<byte_offset, next_event>>
    /\ layers' = sort_layers(ls).layers
    /\ cursors' = cursors + sort_layers(ls).retired

\* ------------------------------------------------------- next(): the loop
\* The head of the loop, past the buffered event and the cancellation check.
\* The check made one iteration late.
PollLate == cancellation_flag # None /\ iter_count >= CANCELLATION_CHECK_INTERVAL

PollDue == cancellation_flag # None /\ iter_count + 1 >= CANCELLATION_CHECK_INTERVAL

LoopHead ==
    /\ pc = "top"
    /\ next_event = <<>>
    /\ ~discovery.panicked
    /\ ~(PollDue /\ cancellation_flag # 0)
    /\ iter_count' = IF cancellation_flag = None THEN iter_count
                     ELSE IF PollDue THEN 0 ELSE iter_count + 1
    /\ UNCHANGED cancellation_flag

Locals0 == UNCHANGED <<capture, reference_highlight, definition_highlight, has_highlight, resolved>>

\* `if let Some(e) = self.next_event.take() { return Some(Ok(e)) }`
ReturnBuffered ==
    /\ pc = "top"
    /\ next_event # <<>>
    /\ Returns(next_event[1])
    /\ next_event' = <<>>
    /\ UNCHANGED <<source, started, renderer, parser, repo, byte_offset, layers, cursors, last_highlight_range, iter_count,
                   cancellation_flag, pc>>
    /\ Locals0

\* `if self.layers.is_empty()`
LayersEmpty ==
    /\ LoopHead
    /\ layers = <<>>
    /\ IF byte_offset < Len(source)
       THEN /\ Returns(SourceEvent(byte_offset, Len(source)))
            /\ byte_offset' = Len(source)
       ELSE /\ Returns(ReturnedNone)
            /\ UNCHANGED byte_offset
    /\ UNCHANGED <<source, started, renderer, parser, repo, layers, cursors, next_event, last_highlight_range, pc>>
    /\ Locals0

\* No capture is left in layers[0], a highlight is still open.
EndWithoutCapture ==
    /\ LoopHead
    /\ layers # <<>>
    /\ layers[1].captures = <<>>
    /\ layers[1].highlight_end_stack # <<>>
    /\ LET layer == layers[1]
           end_byte == Last(layer.highlight_end_stack)
       IN emit_event(end_byte, <<HighlightEnd(end_byte, layer.depth)>>,
                     [layers EXCEPT ![1].highlight_end_stack = Front(@)])
    /\ UNCHANGED <<source, started, renderer, parser, repo, last_highlight_range, pc>>
    /\ Locals0

\* No capture is left in layers[0] and no highlight is open.
LayerExhausted ==
    /\ LoopHead
    /\ layers # <<>>
    /\ layers[1].captures = <<>>
    /\ layers[1].highlight_end_stack = <<>>
    /\ emit_event(Len(source), <<>>, layers)
    /\ UNCHANGED <<source, started, renderer, parser, repo, last_highlight_range, pc>>
    /\ Locals0

\* A highlight of layers[0] ends before the next capture starts.
EndBeforeCapture ==
    /\ LoopHead
    /\ layers # <<>>
    /\ layers[1].captures # <<>>
    /\ layers[1].highlight_end_stack # <<>>
    /\ LET layer == layers[1]
           end_byte == Last(layer.highlight_end_stack)
       IN /\ end_byte <= layer.captures[1].node.s
          /\ emit_event(end_byte, <<HighlightEnd(end_byte, layer.depth)>>,
                        [layers EXCEPT ![1].highlight_end_stack = Front(@)])
    /\ UNCHANGED <<source, started, renderer, parser, repo, last_highlight_range, pc>>
    /\ Locals0

\* layers[0] has a capture that is to be processed now.
CaptureDue ==
    /\ layers # <<>>
    /\ layers[1].captures # <<>>
    /\ IF layers[1].highlight_end_stack = <<>> THEN TRUE
       ELSE Last(layers[1].highlight_end_stack) > layers[1].captures[1].node.s

\* `while range.start > layer.scope_stack.last().unwrap().range.end`
RECURSIVE PopScopes(_, _)
PopScopes(stack, start) ==
    IF start > Last(stack).range.e THEN PopScopes(Front(stack), start) ELSE stack

\* ------------------------------------------------------ injection branch
\* What HighlightIterLayer::new comes to for one injection: it fails (the
\* parser rejects the language, or it stops parsing because it has read a
\* nonzero cancellation flag) or gives a layer whose stream shows `head`.
Outcomes(doc, n) ==
    {[ok |-> FALSE, cause |-> "language", head |-> <<>>]}
    \cup (IF cancellation_flag \notin {None, 0}
          THEN {[ok |-> FALSE, cause |-> "cancelled", head |-> <<>>]}
          ELSE {})
    \cup (IF parser.frail
          THEN {[ok |-> FALSE, cause |-> "other", head |-> <<>>]}
          ELSE {})
    \cup {[ok |-> TRUE, cause |-> "none", head |-> h] :
            h \in FirstHeads(Injected(doc), <<>>, n)}

\* The error of HighlightIterLayer::new: `.map_err(|_| Error::InvalidLanguage)?`
\* for set_language, `.ok_or(Error::Cancelled)?` for parse.
LayerError(cause) ==
    IF cause = "language" THEN ErrInvalidLanguage ELSE ErrCancelled

\* `language.and_then(&self.injection_callback)` is Some and
\* `!content_nodes.is_empty()`, with the content test left out.
HasLanguage(g) == g.language = "known"

\* `language.and_then(&self.injection_callback)` is Some and
\* `!content_nodes.is_empty()`
MakesLayer(g) == g.language = "known" /\ g.content # <<>>

\* `for (_, language, content_nodes, include_children) in injections`:
\* [layers, err, popped, made, failed_at, valid]; `made` holds the indices
\* of the entries a layer was made for, `failed_at` the index of the entry
\* whose layer could not be made (0: none); `valid` says that every head
\* lies in the tree of its layer; `new_layers` lists the depth and the ranges
\* each layer was constructed with; `panicked` says that intersect_ranges
\* was called on a layer without ranges, where its `expect` panics.
RECURSIVE InjectAll(_, _, _, _, _)
InjectAll(acc, injections, outcomes, k, n) ==
    IF k > Len(injections) THEN acc
    ELSE LET g == injections[k]
             o == outcomes[k]
             ls == acc.layers
             depth == ls[1].depth + 1
         IN IF MakesLayer(g) /\ ls[1].ranges = <<>>
            THEN [acc EXCEPT !.panicked = TRUE]
            ELSE IF MakesLayer(g)
            THEN LET ranges == intersect_ranges(ls[1].ranges, g.content, g.include_children) IN
                 IF ~o.ok THEN [acc EXCEPT !.err = <<LayerError(o.cause)>>, !.failed_at = k,
                                           !.cause = o.cause]
                 ELSE InjectAll(
                        [acc EXCEPT
                           !.layers = insert_layer(ls,
                               NewLayer(o.head, IF o.head = <<>> THEN 0 ELSE MaxInjCaps - 1,
                                        Injected(ls[1].doc), depth, ranges)),
                           !.popped = @ + 1,
                           !.made = @ \cup {k},
                           !.new_layers = Append(@, [entry |-> k, depth |-> depth,
                                                     ranges |-> ranges]),
                           !.valid = @ /\ o.head \in FirstHeads(Injected(ls[1].doc), ranges, n)],
                        injections, outcomes, k + 1, n)
            ELSE InjectAll([acc EXCEPT
                              !.valid = @ /\ o = [ok |-> TRUE, cause |-> "none", head |-> <<>>]],
                           injections, outcomes, k + 1, n)

\* `if pattern_index < layer.config.locals_pattern_index`
Injection ==
    /\ LoopHead
    /\ CaptureDue
    /\ layers[1].captures[1].pattern < locals_pattern_index
    /\ LET item == layers[1].captures[1]
           popped == [layers[1] EXCEPT !.scope_stack = PopScopes(@, item.node.s)]
           has_site == item.index = injection_site_capture_index
       IN \E l2 \in AfterNext(popped, Len(source)) :
            \* the matches for the same site that follow are removed
            /\ has_site /\ l2.captures # <<>> =>
                  ~(l2.captures[1].pattern < locals_pattern_index
                    /\ l2.captures[1].index = injection_site_capture_index
                    /\ l2.captures[1].node = item.node)
            /\ IF has_site
               THEN \E outcomes \in [1 .. Len(Injections(item)) ->
                                          Outcomes(layers[1].doc, Len(source))] :
                      LET r == InjectAll([layers |-> [layers EXCEPT ![1] = l2], err |-> <<>>,
                                          popped |-> 0, made |-> {}, failed_at |-> 0,
                                          cause |-> "none", valid |-> TRUE,
                                          new_layers |-> <<>>, panicked |-> FALSE],
                                         Injections(item), outcomes, 1, Len(source))
                      IN /\ r.valid
                         /\ discovery' = [seen |-> discovery.seen
                                                     \cup {[node |-> item.node,
                                                             inj |-> item.inj]},
                                          again |-> discovery.again
                                                      \/ \E d \in discovery.seen :
                                                            d.node = item.node,
                                          site |-> <<item.node>>,
                                          groups |-> Injections(item),
                                          made |-> r.made, failed_at |-> r.failed_at,
                                          by |-> <<[depth |-> layers[1].depth,
                                                    ranges |-> layers[1].ranges]>>,
                                          new_layers |-> r.new_layers,
                                          panicked |-> r.panicked]
                         /\ parser' = [parser EXCEPT
                                         !.cause = r.cause,
                                         !.error = IF r.err = <<>> THEN "none"
                                                   ELSE r.err[1].kind]
                         /\ IF r.panicked
                            THEN /\ Panicked
                                 /\ layers' = r.layers
                                 /\ cursors' = Max(0, cursors - r.popped)
                            ELSE IF r.err # <<>>
                            THEN /\ Returned(r.err[1])
                                 /\ layers' = r.layers
                                 /\ cursors' = Max(0, cursors - r.popped)
                            ELSE /\ Returned(Continue)
                                 /\ layers' = sort_layers(r.layers).layers
                                 /\ cursors' = Max(0, cursors - r.popped)
                                               + sort_layers(r.layers).retired
               ELSE /\ Returns(Continue)
                    /\ layers' = [layers EXCEPT ![1] = l2]
                    /\ UNCHANGED cursors
    /\ UNCHANGED <<source, started, renderer, repo, byte_offset, next_event, last_highlight_range, pc>>
    /\ Locals0

\* ------------------------------------------ local and highlight captures
\* `layer.captures.next()` for a capture of a local or a highlight pattern.
TakeCapture ==
    /\ LoopHead
    /\ CaptureDue
    /\ layers[1].captures[1].pattern >= locals_pattern_index
    /\ LET item == layers[1].captures[1]
           popped == [layers[1] EXCEPT !.scope_stack = PopScopes(@, item.node.s)]
       IN /\ \E l2 \in AfterNext(popped, Len(source)) : layers' = [layers EXCEPT ![1] = l2]
          /\ capture' = <<item>>
          /\ pc' = IF item.pattern < highlights_pattern_index THEN "locals" ELSE "check"
    /\ reference_highlight' = None
    /\ definition_highlight' = FALSE
    /\ resolved' = NoLookup
    /\ Returns(Continue)
    /\ UNCHANGED <<source, started, renderer, parser, repo, byte_offset, cursors, next_event, last_highlight_range,
                   has_highlight>>

\* The text of a node.
Text(node) == SubSeq(source, node.s + 1, node.e)

\* find_map without the test of value_range.
RECURSIVE FindDefByName(_, _, _, _)
FindDefByName(defs, name, start, k) ==
    IF k = 0 THEN 0
    ELSE IF defs[k].name = name THEN k
    ELSE FindDefByName(defs, name, start, k - 1)

\* `scope.local_defs.iter().rev().find_map(..)`: the index of the newest
\* definition of `name` whose value ends at or before `start`; 0 if none.
RECURSIVE FindDef(_, _, _, _)
FindDef(defs, name, start, k) ==
    IF k = 0 THEN 0
    ELSE IF defs[k].name = name /\ start >= defs[k].value_range.e THEN k
    ELSE FindDef(defs, name, start, k - 1)

\* The walk without `if !scope.inherits { break }`.
RECURSIVE FindInAllScopes(_, _, _, _)
FindInAllScopes(stack, name, start, i) ==
    IF i = 0 THEN <<0, 0>>
    ELSE LET d == FindDef(stack[i].local_defs, name, start, Len(stack[i].local_defs)) IN
         IF d # 0 THEN <<i, d>>
         ELSE FindInAllScopes(stack, name, start, i - 1)

\* `for scope in layer.scope_stack.iter().rev()`: <<scope, def>>, <<0, 0>> if
\* the name is not found.
RECURSIVE FindInScopes(_, _, _, _)
FindInScopes(stack, name, start, i) ==
    IF i = 0 THEN <<0, 0>>
    ELSE LET d == FindDef(stack[i].local_defs, name, start, Len(stack[i].local_defs)) IN
         IF d # 0 THEN <<i, d>>
         ELSE IF ~stack[i].inherits THEN <<0, 0>>
         ELSE FindInScopes(stack, name, start, i - 1)

\* The value range of a definition: `for capture in captures { if .. value .. }`.
ValueRange(item) ==
    IF item.value = <<>> THEN [s |-> 0, e |-> 0]
    ELSE [s |-> item.value[1].s, e |-> item.value[1].e]

\* One pass of `while pattern_index < layer.config.highlights_pattern_index`.
Locals ==
    /\ pc = "locals"
    /\ LET layer == layers[1]
           c == capture[1]
           range == c.node
           stack == layer.scope_stack
           top == Len(stack)
           is_scope == c.index = local_scope_capture_index
           is_def == ~is_scope /\ c.index = local_def_capture_index
           is_ref == ~is_scope /\ ~is_def /\ c.index = local_ref_capture_index
           looked == is_ref /\ ~definition_highlight
           hit == FindInScopes(stack, Text(range), range.s, top)
           stack2 ==
              IF is_scope
              THEN Append(stack, [inherits |-> ScopeInherits(c.pattern),
                                  range |-> [s |-> range.s, e |-> range.e],
                                  local_defs |-> <<>>])
              ELSE IF is_def
              THEN [stack EXCEPT ![top].local_defs =
                       Append(@, [name |-> Text(range), value_range |-> ValueRange(c),
                                  highlight |-> None])]
              ELSE stack
           layer2 == [layer EXCEPT !.scope_stack = stack2]
           same_node == layer.captures # <<>> /\ layer.captures[1].node = c.node
       IN /\ definition_highlight' = IF is_scope THEN FALSE ELSE IF is_def THEN TRUE
                                     ELSE definition_highlight
          /\ reference_highlight' =
                IF is_def THEN None
                ELSE IF looked /\ hit[1] # 0
                THEN stack[hit[1]].local_defs[hit[2]].highlight
                ELSE reference_highlight
          /\ resolved' =
                IF looked
                THEN [looked |-> TRUE, found |-> hit[1] # 0, start |-> range.s, scope |-> hit[1],
                      def |-> hit[2],
                      highlight |-> IF hit[1] # 0
                                    THEN stack[hit[1]].local_defs[hit[2]].highlight
                                    ELSE None,
                      redefined |-> FALSE]
                ELSE IF is_def THEN [resolved EXCEPT !.redefined = resolved.found]
                ELSE resolved
          /\ IF same_node
             THEN /\ \E l2 \in AfterNext(layer2, Len(source)) :
                        layers' = [layers EXCEPT ![1] = l2]
                  /\ capture' = layer.captures
                  /\ pc' = IF layer.captures[1].pattern < highlights_pattern_index
                           THEN "locals" ELSE "check"
             ELSE /\ layers' = [layers EXCEPT ![1] = layer2]
                  /\ capture' = capture
                  /\ pc' = "check"
    /\ Returns(Continue)
    /\ UNCHANGED <<source, started, renderer, parser, repo, byte_offset, cursors, next_event, last_highlight_range,
                   iter_count, cancellation_flag, has_highlight>>

\* The same test, whatever the depths.
SameRange(range, depth, last) ==
    last # <<>> /\ range.s = last[1] /\ range.e = last[2]

\* `range.start == last_start && range.end == last_end && layer.depth < last_depth`
Painted(range, depth, last) ==
    /\ last # <<>>
    /\ range.s = last[1]
    /\ range.e = last[2]
    /\ depth < last[3]

\* `let mut has_highlight = true; if let Some(..) = self.last_highlight_range`
Check ==
    /\ pc = "check"
    /\ has_highlight' = ~Painted(capture[1].node, layers[1].depth, last_highlight_range)
    /\ pc' = "skip"
    /\ Returns(Continue)
    /\ UNCHANGED <<source, started, renderer, parser, repo, byte_offset, layers, cursors, next_event, last_highlight_range,
                   iter_count, cancellation_flag, capture, reference_highlight,
                   definition_highlight, resolved>>

\* The same condition without the test for a local variable.
SkipAnyNode == has_highlight /\ non_local_variable_patterns(capture[1].pattern)

\* The condition of the loop that skips the patterns disabled for local variables.
SkipCondition ==
    /\ has_highlight
    /\ definition_highlight \/ reference_highlight # None
    /\ non_local_variable_patterns(capture[1].pattern)

\* One pass of that loop.
Skip ==
    /\ pc = "skip"
    /\ SkipCondition
    /\ LET layer == layers[1]
           same_node == layer.captures # <<>> /\ layer.captures[1].node = capture[1].node
       IN IF same_node
          THEN /\ capture' = layer.captures
               /\ has_highlight' = TRUE
               /\ \E l2 \in AfterNext(layer, Len(source)) : layers' = [layers EXCEPT ![1] = l2]
          ELSE /\ has_highlight' = FALSE
               /\ UNCHANGED <<capture, layers>>
    /\ Returns(Continue)
    /\ UNCHANGED <<source, started, renderer, parser, repo, byte_offset, cursors, next_event, last_highlight_range,
                   iter_count, cancellation_flag, pc, reference_highlight,
                   definition_highlight, resolved>>


\* `current_highlight.or(reference_highlight)`
OptionOrSwapped(a, b) == IF b # None THEN b ELSE a

\* `reference_highlight.or(current_highlight)`
OptionOr(a, b) == IF a # None THEN a ELSE b

\* `if has_highlight { .. }`, then `self.sort_layers()`: the end of the pass.
Emit ==
    /\ pc = "skip"
    /\ ~SkipCondition
    /\ LET layer == layers[1]
           c == capture[1]
           range == c.node
           same_node == layer.captures # <<>> /\ layer.captures[1].node = c.node
           current_highlight == highlight_indices(c.index)
           top == Len(layer.scope_stack)
           stack2 ==
              IF definition_highlight
              THEN [layer.scope_stack EXCEPT
                      ![top].local_defs[Len(layer.scope_stack[top].local_defs)].highlight =
                          current_highlight]
              ELSE layer.scope_stack
           highlight == OptionOr(reference_highlight, current_highlight)
       IN IF has_highlight
          THEN \E l2 \in (IF same_node
                          THEN {l \in AfterNext(layer, Len(source)) :
                                  l.captures = <<>> \/ l.captures[1].node # c.node}
                          ELSE {layer}) :
                 LET l3 == [l2 EXCEPT !.scope_stack = stack2] IN
                 IF highlight # None
                 THEN /\ last_highlight_range' = <<range.s, range.e, layer.depth>>
                      /\ started' =
                            LET x == [s |-> range.s, e |-> range.e, depth |-> layer.depth]
                            IN [nodes |-> started.nodes \cup {x},
                                twice |-> started.twice \/ x \in started.nodes]
                      /\ emit_event(range.s,
                                    <<HighlightStart(highlight, current_highlight, range.s,
                                                     layer.depth)>>,
                                    [layers EXCEPT ![1] =
                                        [l3 EXCEPT !.highlight_end_stack = Append(@, range.e)]])
                 ELSE /\ layers' = sort_layers([layers EXCEPT ![1] = l3]).layers
                      /\ cursors' = cursors + sort_layers([layers EXCEPT ![1] = l3]).retired
                      /\ Returns(Continue)
                      /\ UNCHANGED <<byte_offset, next_event, last_highlight_range, started>>
          ELSE /\ layers' = sort_layers(layers).layers
               /\ cursors' = cursors + sort_layers(layers).retired
               /\ Returns(Continue)
               /\ UNCHANGED <<byte_offset, next_event, last_highlight_range, started>>
    /\ pc' = "top"
    /\ capture' = <<>>
    /\ reference_highlight' = None
    /\ definition_highlight' = FALSE
    /\ has_highlight' = FALSE
    /\ UNCHANGED <<source, renderer, parser, repo, iter_count, cancellation_flag, resolved>>

Next ==
    \/ ReturnBuffered
    \/ LayersEmpty
    \/ EndWithoutCapture
    \/ LayerExhausted
    \/ EndBeforeCapture
    \/ Injection
    \/ TakeCapture
    \/ Locals
    \/ Check
    \/ Skip
    \/ Emit

Spec == Init /\ [][Next]_vars

\* ------------------------------------------------ local variables at length
\* A "script" document: no injection site, up to MaxLocalCaps captures.
InitLocals == Highlighter_highlight("script", MaxLocalCaps, {None}) /\ parser = Sound

NextLocals ==
    \/ ReturnBuffered
    \/ LayersEmpty
    \/ EndWithoutCapture
    \/ LayerExhausted
    \/ EndBeforeCapture
    \/ TakeCapture
    \/ Locals
    \/ Check
    \/ Skip
    \/ Emit

SpecLocals == InitLocals /\ [][NextLocals]_vars

\* ------------------------------------------------- scopes side by side
\* A "blocks" document of MaxScopeSrc equal bytes, long enough for two scopes
\* side by side of which the second has a node of its own.
ScopeSources == {[i \in 1 .. MaxScopeSrc |-> "a"]}

InitScopes == HighlightIter_new(ScopeSources, "blocks", MaxScopeCaps, {None}) /\ parser = Sound

NextScopes ==
    \/ ReturnBuffered
    \/ LayersEmpty
    \/ EndWithoutCapture
    \/ LayerExhausted
    \/ EndBeforeCapture
    \/ TakeCapture
    \/ Locals
    \/ Check
    \/ Emit

SpecScopes == InitScopes /\ [][NextScopes]_vars

\* ------------------------------------------------------------ cancellation
\* `if cancellation_flag.load(Ordering::Relaxed) != 0 { return Some(Err(..)) }`
Cancelled ==
    /\ pc = "top"
    /\ next_event = <<>>
    /\ PollDue
    /\ cancellation_flag # 0
    /\ iter_count' = 0
    /\ Returns(ErrCancelled)
    /\ UNCHANGED <<source, started, renderer, parser, repo, byte_offset, layers, cursors, next_event, last_highlight_range,
                   cancellation_flag, pc>>
    /\ Locals0

\* The owner of the flag stores another value into the atomic.
StoreFlag ==
    /\ cancellation_flag # None
    /\ cancellation_flag' = 1 - cancellation_flag
    /\ UNCHANGED <<source, started, renderer, parser, repo, byte_offset, layers, cursors, next_event, last_highlight_range,
                   iter_count, pc, ret, failed, src_end, src_ok, boundary, registry,
                   intersection, discovery>>
    /\ Locals0

\* A document highlighted with or without a cancellation flag; the caller
\* may go on calling next() after it has returned None.
InitCancel == Highlighter_highlight("mixed", MaxCancelCaps, {None, 0, 1}) /\ parser = Sound

NextCancel ==
    \/ Next
    \/ Cancelled
    \/ StoreFlag

SpecCancel == InitCancel /\ [][NextCancel]_vars

\* ---------------------------------------------------------- a frail parser
\* The parser of the context can give no tree without being cancelled; a
\* cancellation flag may be supplied.
InitParse == Highlighter_highlight("mixed", MaxCancelCaps, {None, 0, 1}) /\ parser = Frail

SpecParse == InitParse /\ [][NextCancel]_vars

\* ------------------------------------------------------- injection groups
\* A document whose injection sites can be matched by two injection
\* patterns; no local variables.
\* The text is read for the names of local variables only: one source of
\* each length.
GroupSources == {q \in Sources : \A i \in 1 .. Len(q) : q[i] = "a"}

InitGroups == HighlightIter_new(GroupSources, "sites", MaxGroupCaps, {None}) /\ parser = Sound

NextGroups ==
    \/ ReturnBuffered
    \/ LayersEmpty
    \/ EndWithoutCapture
    \/ LayerExhausted
    \/ EndBeforeCapture
    \/ Injection
    \/ TakeCapture
    \/ Check
    \/ Emit

SpecGroups == InitGroups /\ [][NextGroups]_vars

\* -------------------------------------------------------- nested injections
\* A document whose injected documents have injection sites of their own.
InitNested == Highlighter_highlight("nested", MaxNestedCaps, {None}) /\ parser = Sound

NextNested ==
    \/ ReturnBuffered
    \/ LayersEmpty
    \/ EndWithoutCapture
    \/ LayerExhausted
    \/ EndBeforeCapture
    \/ Injection
    \/ TakeCapture
    \/ Check
    \/ Emit

SpecNested == InitNested /\ [][NextNested]_vars

\* The caller goes on calling next(), and a call that can take a step of the
\* loop takes it.
LiveNested == SpecNested /\ WF_vars(NextNested)

\* ------------------------------------------------- capture-name resolution
\* A name is a sequence of characters; `name.split('.')`.
RECURSIVE Split(_)
Split(name) ==
    IF \A i \in 1 .. Len(name) : name[i] # "." THEN <<name>>
    ELSE LET i == CHOOSE k \in 1 .. Len(name) :
                     name[k] = "." /\ \A j \in 1 .. k - 1 : name[j] # "."
         IN <<SubSeq(name, 1, i - 1)>> \o Split(SubSeq(name, i + 1, Len(name)))

\* `capture_parts.contains(&part)`
Contains(parts, part) == \E j \in 1 .. Len(parts) : parts[j] = part

\* `for part in highlight_name.split('.')`: [len, matches] when the loop ends.
RECURSIVE MatchParts(_, _, _, _)
MatchParts(parts, capture_parts, k, len) ==
    IF k > Len(parts) THEN [len |-> len, matches |-> TRUE]
    ELSE IF ~Contains(capture_parts, parts[k]) THEN [len |-> len + 1, matches |-> FALSE]
    ELSE MatchParts(parts, capture_parts, k + 1, len + 1)

\* `matches && len >= best_match_len`
BetterOrEqual(m, best_match_len) == m.matches /\ m.len >= best_match_len

\* `matches && len > best_match_len`
Better(m, best_match_len) == m.matches /\ m.len > best_match_len

\* `for (i, highlight_name) in self.highlight_names.iter().enumerate()`
RECURSIVE BestMatch(_, _, _, _)
BestMatch(highlight_names, capture_parts, i, best) ==
    IF i >= Len(highlight_names) THEN best
    ELSE LET m == MatchParts(Split(highlight_names[i + 1]), capture_parts, 1, 0) IN
         BestMatch(highlight_names, capture_parts, i + 1,
                   IF Better(m, best.best_match_len)
                   THEN [best_index |-> i, best_match_len |-> m.len]
                   ELSE best)

\* One entry of highlight_indices: the closure mapped over capture_names().
highlight_index(highlight_names, capture_name) ==
    BestMatch(highlight_names, Split(capture_name), 0,
              [best_index |-> None, best_match_len |-> 0]).best_index

\* The names of up to MaxNameLen characters, and the lists of up to MaxNames
\* of them.
NameChars == {"a", "b", "."}
Names == SeqsOf(NameChars, MaxNameLen)
NameLists == SeqsOf(Names, MaxNames)

\* The example of the documentation, one letter a part: f(unction),
\* b(uiltin), c(onstructor), m(ethod).
DocNames == << <<"f">>, <<"f", ".", "b">> >>
DocCaptures == {<<"f", ".", "b", ".", "c">>, <<"f", ".", "m">>, <<"f", ".", "m", ".", "b">>}

\* No iterator exists while a configuration is loaded.
NoIter ==
    /\ source = <<>>
    /\ byte_offset = 0
    /\ layers = <<>>
    /\ cursors = 0
    /\ next_event = <<>>
    /\ last_highlight_range = <<>>
    /\ iter_count = 0
    /\ cancellation_flag = None
    /\ pc = "top"
    /\ capture = <<>>
    /\ reference_highlight = None
    /\ definition_highlight = FALSE
    /\ has_highlight = FALSE
    /\ ret = NotCalled
    /\ failed = FALSE
    /\ src_end = 0
    /\ src_ok = TRUE
    /\ resolved = NoLookup
    /\ boundary = [a \in 0 .. 0 |-> <<>>]
    /\ started = NoneStarted
    /\ parser = Sound

\* The capture names of an injections query, and those of the locals and
\* highlights queries (which may use a name the injections query uses).
InjectionCaptureSets ==
    SUBSET {"injection.site", "injection.content", "injection.language", "comment"}
OtherCaptureSets == SUBSET {"comment", "function", "local.scope"}

\* `query.disable_capture(..)` for the names of the injections query.
DisabledNone(capture_names) == {}
Disabled(capture_names) == {c \in capture_names : c # "injection.site"}

\* The text of a query, as far as compiling it goes: "p" is a pattern of one
\* byte, " " a byte between patterns, "!" a byte the query compiler rejects.
QueryTexts == SeqsOf({"p", " ", "!"}, MaxQueryLen)

\* Query::new: the offset, in the text given, of the first byte that is
\* rejected, or None when the text compiles.
Query_new(text) ==
    IF \A i \in 1 .. Len(text) : text[i] # "!" THEN None
    ELSE (CHOOSE i \in 1 .. Len(text) :
             text[i] = "!" /\ \A j \in 1 .. i - 1 : text[j] # "!") - 1

\* Query::start_byte_for_pattern for every pattern of a query that compiled,
\* in the order of the pattern indices; its length is Query::pattern_count.
PatternStarts(text) ==
    SelectSeq([k \in 1 .. Len(text) |-> k - 1], LAMBDA b : text[b + 1] = "p")

\* `pattern_offset <= offset`
StartsNotAfter(pattern_offset, offset) == pattern_offset <= offset

\* `pattern_offset < offset`
StartsBefore(pattern_offset, offset) == pattern_offset < offset

\* `for i in 0..(query.pattern_count())`, from the (i+1)-th pattern on:
\* [locals_pattern_index, highlights_pattern_index]
RECURSIVE PatternIndices(_, _, _, _, _)
PatternIndices(starts, i, locals_query_offset, highlights_query_offset, acc) ==
    IF i > Len(starts) THEN acc
    ELSE LET pattern_offset == starts[i]
             h == IF StartsBefore(pattern_offset, highlights_query_offset)
                     /\ StartsBefore(pattern_offset, highlights_query_offset)
                  THEN acc.highlights_pattern_index + 1
                  ELSE acc.highlights_pattern_index
             l == IF StartsBefore(pattern_offset, highlights_query_offset)
                     /\ StartsBefore(pattern_offset, locals_query_offset)
                  THEN acc.locals_pattern_index + 1
                  ELSE acc.locals_pattern_index
         IN PatternIndices(starts, i + 1, locals_query_offset, highlights_query_offset,
                           [locals_pattern_index |-> l, highlights_pattern_index |-> h])

\* Highlighter::new with a list of names, and the queries of a language: a
\* capture name to resolve, the capture names of the three queries, and the
\* texts of the three queries.
InitResolve ==
    /\ NoIter
    /\ renderer = HtmlRenderer_new
    /\ repo = NoRepo
    /\ \E input \in ((NameLists \X Names) \cup ({DocNames} \X DocCaptures))
                       \X {{"injection.site", "injection.content"}} \X {{"function"}}
                       \X {<<<<"p">>, <<"p">>, <<"p">>>>}
                     \cup {<<<<DocNames, <<"f">>>>, i, o, <<<<"p">>, <<"p">>, <<"p">>>>>> :
                              i \in InjectionCaptureSets, o \in OtherCaptureSets}
                     \cup {<<<<DocNames, <<"f">>>>, {"injection.site"}, {"function"}, q>> :
                              q \in QueryTexts \X QueryTexts \X QueryTexts} :
          registry = [highlight_names |-> input[1][1], capture_name |-> input[1][2],
                      highlight_index |-> None,
                      injection_captures |-> input[2], other_captures |-> input[3],
                      query_disabled |-> {}, injections_query_disabled |-> {},
                      injection_query |-> input[4][1], locals_query |-> input[4][2],
                      highlights_query |-> input[4][3],
                      locals_pattern_index |-> 0, highlights_pattern_index |-> 0,
                      query_error |-> None, loaded |-> FALSE]
    /\ intersection = NoCall
    /\ discovery = NoDiscovery

\* Highlighter::load_configuration, as far as the disabled captures of the
\* two queries, the pattern indices of the sections and highlight_indices go.
load_configuration ==
    /\ ~registry.loaded
    /\ registry.query_error = None
    /\ LET query_source == registry.injection_query \o registry.locals_query
                              \o registry.highlights_query
           locals_query_offset == Len(registry.injection_query)
           highlights_query_offset == Len(registry.injection_query)
                                         + Len(registry.locals_query)
           indices == PatternIndices(PatternStarts(query_source), 1, locals_query_offset,
                                     highlights_query_offset,
                                     [locals_pattern_index |-> 0,
                                      highlights_pattern_index |-> 0])
       IN IF Query_new(query_source) # None
          THEN registry' = [registry EXCEPT !.query_error = Query_new(query_source)]
          ELSE IF Query_new(registry.injection_query) # None
          THEN registry' = [registry EXCEPT
                              !.query_error = Query_new(registry.injection_query)]
          ELSE registry' = [registry EXCEPT
                              !.query_disabled = Disabled(registry.injection_captures),
                              !.locals_pattern_index = indices.locals_pattern_index,
                              !.highlights_pattern_index =
                                  indices.highlights_pattern_index,
                              !.highlight_index = highlight_index(registry.highlight_names,
                                                                  registry.capture_name),
                              !.loaded = TRUE]
    /\ UNCHANGED <<source, started, renderer, parser, repo, byte_offset, layers, cursors, next_event, last_highlight_range,
                   iter_count, cancellation_flag, pc, ret, failed, src_end, src_ok, boundary,
                   intersection, discovery>>
    /\ Locals0

SpecResolve == InitResolve /\ [][load_configuration]_vars

\* ------------------------------------------------------ range intersection
\* The non-empty byte ranges up to position n, and the lists of up to k
\* ranges of S in ascending order, none overlapping the next.
ByteRanges(n) == {[s |-> a, e |-> b] : <<a, b>> \in {q \in (0 .. n) \X (0 .. n) : q[1] < q[2]}}
Ascending(q) == \A k \in 1 .. Len(q) - 1 : q[k].e <= q[k + 1].s
AscendingLists(S, k) == {q \in SeqsOf(S, k) : Ascending(q)}

\* The ranges a layer can have: those of the root layer, or a list of
\* ranges an earlier intersection gave, the empty list included.
ParentRanges ==
    {<<[s |-> 0, e |-> USIZE_MAX]>>} \cup AscendingLists(ByteRanges(MaxPos), MaxParents)

\* A node of the parent layer's tree with the ranges of its direct children,
\* and the non-empty lists of content nodes of one injection.
SyntaxNodes ==
    UNION {{[s |-> r.s, e |-> r.e, children |-> c] :
               c \in AscendingLists({x \in ByteRanges(MaxPos) : r.s <= x.s /\ x.e <= r.e},
                                    MaxChildren)} : r \in ByteRanges(MaxPos)}
ContentNodes == {q \in SeqsOf(SyntaxNodes, MaxNodes) : q # <<>> /\ Ascending(q)}

\* A call of intersect_ranges on a layer with any ranges, for any content
\* nodes; no iterator is looked at.
InitRanges ==
    /\ NoIter
    /\ renderer = HtmlRenderer_new
    /\ repo = NoRepo
    /\ registry = Loaded
    /\ discovery = NoDiscovery
    /\ \E P \in ParentRanges, nodes \in ContentNodes, includes_children \in BOOLEAN :
          intersection = [parent_ranges |-> P, nodes |-> nodes,
                          includes_children |-> includes_children,
                          result |-> <<>>, state |-> "called"]

\* The call runs: `expect` panics when the layer has no range, else the
\* result is returned.
IntersectRanges ==
    /\ intersection.state = "called"
    /\ intersection' =
          IF intersection.parent_ranges = <<>>
          THEN [intersection EXCEPT !.state = "panicked"]
          ELSE [intersection EXCEPT
                   !.state = "returned",
                   !.result = intersect_ranges(intersection.parent_ranges,
                                               intersection.nodes,
                                               intersection.includes_children)]
    /\ UNCHANGED <<source, started, renderer, parser, repo, byte_offset, layers, cursors, next_event, last_highlight_range,
                   iter_count, cancellation_flag, pc, ret, failed, src_end, src_ok, boundary,
                   registry, discovery>>
    /\ Locals0

SpecRanges == InitRanges /\ [][IntersectRanges]_vars

\* ------------------------------------------------------------ HtmlRenderer
\* `(attribute_callback)(h)`: no attribute for highlight 0, one byte for 1.
attribute_callback(h) == IF h = 0 THEN <<>> ELSE <<"c">>

\* util::html_escape
html_escape(c) == IF c = "<" THEN <<"&", "l", "t", ";">> ELSE <<>>

start_highlight(html, h) ==
    LET attribute_string == attribute_callback(h) IN
    html \o <<"<", "s", "p", "a", "n">>
         \o (IF attribute_string # <<>> THEN <<" ">> \o attribute_string ELSE <<>>)
         \o <<">">>

end_highlight(html) == html \o <<"<", "/", "s", "p", "a", "n", ">">>

\* `highlights.iter().for_each(|_| self.end_highlight())`
RECURSIVE EndAll(_, _)
EndAll(html, k) == IF k = 0 THEN html ELSE EndAll(end_highlight(html), k - 1)

\* The same loop, left out.
StartNone(html, highlights, k) == html

\* `highlights.iter().for_each(|scope| self.start_highlight(*scope, ..))`
RECURSIVE StartAll(_, _, _)
StartAll(html, highlights, k) ==
    IF k > Len(highlights) THEN html
    ELSE StartAll(start_highlight(html, highlights[k]), highlights, k + 1)

\* add_text: `for c in ..`: [html, line_offsets] after the bytes from the k-th.
RECURSIVE add_text(_, _, _, _)
add_text(r, src, highlights, k) ==
    IF k > Len(src) THEN r
    ELSE LET c == src[k] IN
         IF c = "\n"
         THEN LET h1 == IF r.html # <<>> /\ Last(r.html) = "\r" THEN Front(r.html)
                        ELSE r.html
                  h2 == Append(EndAll(h1, Len(highlights)), c)
              IN add_text([html |-> StartAll(h2, highlights, 1),
                           line_offsets |-> Append(r.line_offsets, Len(h2))],
                          src, highlights, k + 1)
         ELSE IF html_escape(c) # <<>>
         THEN add_text([r EXCEPT !.html = @ \o html_escape(c)], src, highlights, k + 1)
         ELSE add_text([r EXCEPT !.html = Append(@, c)], src, highlights, k + 1)

\* `line_offsets.pop()` left out.
KeepLast(line_offsets, len) == line_offsets

\* `if self.line_offsets.last() == Some(&(self.html.len() as u32)) { pop }`
PopLast(line_offsets, len) ==
    IF line_offsets # <<>> /\ Last(line_offsets) = len THEN Front(line_offsets)
    ELSE line_offsets

\* The end of render() once the iterator is exhausted.
Finished(r) ==
    LET html == IF r.html = <<>> \/ Last(r.html) # "\n" THEN Append(r.html, "\n")
                ELSE r.html
    IN [r EXCEPT !.html = html,
                 !.line_offsets = PopLast(r.line_offsets, Len(html)),
                 !.result = "Ok"]

\* `Err(a) => return Err(a)`, falling through to the end of render() instead.
ErrFinished(r, a) == [Finished(r) EXCEPT !.events = Tail(@), !.result = a]

\* `Err(a) => return Err(a)`
ErrReturned(r, a) == [r EXCEPT !.events = Tail(@), !.result = a]

\* The events an iterator can hand to render(): any sequence of up to
\* MaxEvents events over slices of the source, errors included.
RenderSources == SeqsOf({"a", "\n", "\r", "<"}, MaxRenderSrc)
RenderEvents(n) ==
    {[kind |-> "Source", a |-> q[1], b |-> q[2]] :
        q \in {x \in (0 .. n) \X (0 .. n) : x[1] < x[2]}}
    \cup {[kind |-> "HighlightStart", a |-> h, b |-> None] : h \in {0, 1}}
    \cup {[kind |-> "HighlightEnd", a |-> None, b |-> None],
          [kind |-> "Err(Cancelled)", a |-> None, b |-> None]}

\* render() is called on a new renderer.
InitRender ==
    /\ NoIter
    /\ repo = NoRepo
    /\ registry = Loaded
    /\ intersection = NoCall
    /\ discovery = NoDiscovery
    /\ \E src \in RenderSources :
          \E input \in SeqsOf(RenderEvents(Len(src)), MaxEvents) :
             renderer = [HtmlRenderer_new EXCEPT !.source = src, !.input = input,
                                                 !.events = input, !.result = "running"]

\* What every step of render() leaves alone.
RenderStep ==
    /\ renderer.result = "running"
    /\ UNCHANGED <<source, started, parser, repo, byte_offset, layers, cursors, next_event,
                   last_highlight_range, iter_count, cancellation_flag, pc, ret, failed,
                   src_end, src_ok, boundary, registry, intersection, discovery>>
    /\ Locals0

\* `Ok(HighlightEvent::HighlightStart(s)) => ..`
RenderStart ==
    /\ RenderStep
    /\ renderer.events # <<>>
    /\ renderer.events[1].kind = "HighlightStart"
    /\ renderer' = [renderer EXCEPT
                       !.events = Tail(@),
                       !.highlights = Append(@, renderer.events[1].a),
                       !.html = start_highlight(@, renderer.events[1].a)]

\* `Ok(HighlightEvent::HighlightEnd) => ..`; popping an empty Vec gives None.
RenderEnd ==
    /\ RenderStep
    /\ renderer.events # <<>>
    /\ renderer.events[1].kind = "HighlightEnd"
    /\ renderer' = [renderer EXCEPT
                       !.events = Tail(@),
                       !.highlights = IF @ = <<>> THEN @ ELSE Front(@),
                       !.html = end_highlight(@)]

\* `Ok(HighlightEvent::Source { start, end }) => ..`
RenderSource ==
    /\ RenderStep
    /\ renderer.events # <<>>
    /\ renderer.events[1].kind = "Source"
    /\ LET e == renderer.events[1]
           r == add_text([html |-> renderer.html, line_offsets |-> renderer.line_offsets],
                         SubSeq(renderer.source, e.a + 1, e.b), renderer.highlights, 1)
       IN renderer' = [renderer EXCEPT !.events = Tail(@), !.html = r.html,
                                       !.line_offsets = r.line_offsets]

\* `Err(a) => return Err(a)`
RenderErr ==
    /\ RenderStep
    /\ renderer.events # <<>>
    /\ renderer.events[1].kind \in ErrKinds
    /\ renderer' = ErrReturned(renderer, renderer.events[1].kind)

\* The iterator has returned None.
RenderDone ==
    /\ RenderStep
    /\ renderer.events = <<>>
    /\ renderer' = Finished(renderer)

NextRender ==
    \/ RenderStart
    \/ RenderEnd
    \/ RenderSource
    \/ RenderErr
    \/ RenderDone

SpecRender == InitRender /\ [][NextRender]_vars

\* ------------------------------------------------------- parser generation
\* The files generate_parser_in_directory writes, by their path below
\* repo_path.
ParserFiles == {"src/parser.c", "src/node-types.json", "src/tree_sitter/parser.h"}
BindingFiles == {"index.js", "src/binding.cc", "binding.gyp"}
RepoFiles == {"src/grammar.json"} \cup ParserFiles \cup BindingFiles

\* The content of a file: <<>> if the path does not exist, what its owner
\* wrote into it, what is left of a write that failed, or what the
\* generator renders for a grammar.
Absent == <<>>
Edited == <<"edited">>
Partial == <<"partial">>
GrammarNames == {"g", "h"}
Rendered(file, language_name) == <<file, language_name>>

\* tree_sitter::PARSER_HEADER, whole or without NEW_HEADER_PARTS.
Header(next_abi) == <<"parser.h", IF next_abi THEN "whole" ELSE "without new parts">>

\* write_file: fs::write succeeds, or fails and leaves the file as it was
\* or truncated; [files, ok, written]
write_file(files, path, body) ==
    {[files |-> [files EXCEPT ![path] = body], ok |-> TRUE, written |-> {path}],
     [files |-> files, ok |-> FALSE, written |-> {}],
     [files |-> [files EXCEPT ![path] = Partial], ok |-> FALSE, written |-> {}]}

\* ensure_file without the test of `path.exists()`.
ensure_file_overwrite(files, path, body) == write_file(files, path, body)

\* ensure_file: `if path.exists() { Ok(()) } else { write_file(path, ..) }`
ensure_file(files, path, body) ==
    IF files[path] # Absent
    THEN {[files |-> files, ok |-> TRUE, written |-> {}]}
    ELSE write_file(files, path, body)

\* A directory with any of the files in it, from an earlier run or from its
\* owner, and no run under way.
InitGenerate ==
    /\ NoIter
    /\ renderer = HtmlRenderer_new
    /\ registry = Loaded
    /\ intersection = NoCall
    /\ discovery = NoDiscovery
    /\ \E files \in [RepoFiles -> {Absent, Edited}] :
          repo = [files |-> files, pc |-> "idle", language_name |-> "", next_abi |-> FALSE,
                  grammar_path |-> FALSE, valid |-> TRUE, result |-> "none", runs |-> 0,
                  start |-> files, written |-> {}]

\* What a step of the run leaves alone.
GenerateStep ==
    /\ UNCHANGED <<source, byte_offset, layers, cursors, next_event, last_highlight_range,
                   iter_count, cancellation_flag, pc, ret, failed, src_end, src_ok,
                   boundary, registry, intersection, discovery, started, renderer, parser>>
    /\ Locals0

\* `return Err(..)`, from `?`
Fails(r) == [r EXCEPT !.pc = "idle", !.result = "Err", !.runs = @ + 1]

\* The step goes on to `next` with what a write has made of the files, or
\* the run fails.
Written(outcome, next) ==
    repo' = IF outcome.ok
            THEN [repo EXCEPT !.files = outcome.files, !.pc = next,
                              !.written = @ \cup outcome.written]
            ELSE Fails([repo EXCEPT !.files = outcome.files])

\* generate_parser_in_directory is called, with or without a grammar path,
\* for a grammar that can be processed or not.
generate_parser_in_directory ==
    /\ repo.pc = "idle"
    /\ repo.runs < MaxRuns
    /\ \E name \in GrammarNames, next_abi \in BOOLEAN, grammar_path \in BOOLEAN,
          valid \in BOOLEAN :
          repo' = [repo EXCEPT !.pc = "create_dir_all", !.language_name = name,
                               !.next_abi = next_abi, !.grammar_path = grammar_path,
                               !.valid = valid, !.result = "none", !.start = repo.files,
                               !.written = {}]
    /\ GenerateStep

\* `fs::create_dir_all(&src_path)?; fs::create_dir_all(&header_path)?;`
CreateDirs ==
    /\ repo.pc = "create_dir_all"
    /\ \E ok \in BOOLEAN :
          repo' = IF ok THEN [repo EXCEPT !.pc = "load_grammar_file"] ELSE Fails(repo)
    /\ GenerateStep

\* `load_grammar_file(..)?`, and without a grammar path
\* `fs::write(&src_path.join("grammar.json"), &grammar_json)?`
LoadGrammar ==
    /\ repo.pc = "load_grammar_file"
    /\ \/ repo' = Fails(repo)
       \/ /\ repo.grammar_path
          /\ repo' = [repo EXCEPT !.pc = "generate"]
       \/ /\ ~repo.grammar_path
          /\ \E outcome \in write_file(repo.files, "src/grammar.json",
                                        Rendered("grammar.json", repo.language_name)) :
                Written(outcome, "generate")
    /\ GenerateStep

\* `parse_grammar(..)?`, `prepare_grammar(..)?` and
\* `generate_parser_for_grammar_with_opts(..)?`
GenerateParser ==
    /\ repo.pc = "generate"
    /\ repo' = IF repo.valid THEN [repo EXCEPT !.pc = "parser.c"] ELSE Fails(repo)
    /\ GenerateStep

\* `write_file(&src_path.join("parser.c"), c_code)?`
WriteParserC ==
    /\ repo.pc = "parser.c"
    /\ \E outcome \in write_file(repo.files, "src/parser.c",
                                  Rendered("parser.c", repo.language_name)) :
          Written(outcome, "node-types.json")
    /\ GenerateStep

\* `write_file(&src_path.join("node-types.json"), node_types_json)?`
WriteNodeTypes ==
    /\ repo.pc = "node-types.json"
    /\ \E outcome \in write_file(repo.files, "src/node-types.json",
                                  Rendered("node-types.json", repo.language_name)) :
          Written(outcome, "parser.h")
    /\ GenerateStep

\* `write_file(&header_path.join("parser.h"), ..)?`
WriteHeader ==
    /\ repo.pc = "parser.h"
    /\ \E outcome \in write_file(repo.files, "src/tree_sitter/parser.h",
                                  Header(repo.next_abi)) :
          Written(outcome, "index.js")
    /\ GenerateStep

\* `ensure_file(&repo_path.join("index.js"), ..)?`
EnsureIndexJs ==
    /\ repo.pc = "index.js"
    /\ \E outcome \in ensure_file(repo.files, "index.js",
                                   Rendered("index.js", repo.language_name)) :
          Written(outcome, "binding.cc")
    /\ GenerateStep

\* `ensure_file(&src_path.join("binding.cc"), ..)?`
EnsureBindingCc ==
    /\ repo.pc = "binding.cc"
    /\ \E outcome \in ensure_file(repo.files, "src/binding.cc",
                                   Rendered("binding.cc", repo.language_name)) :
          Written(outcome, "binding.gyp")
    /\ GenerateStep

\* `ensure_file(&repo_path.join("binding.gyp"), ..)?`
EnsureBindingGyp ==
    /\ repo.pc = "binding.gyp"
    /\ \E outcome \in ensure_file(repo.files, "binding.gyp",
                                   Rendered("binding.gyp", repo.language_name)) :
          Written(outcome, "Ok")
    /\ GenerateStep

\* `Ok(())`
GenerateOk ==
    /\ repo.pc = "Ok"
    /\ repo' = [repo EXCEPT !.pc = "idle", !.result = "Ok", !.runs = @ + 1]
    /\ GenerateStep

\* Between two runs the owner of the directory edits or removes a binding
\* file.
OwnerEdits ==
    /\ repo.pc = "idle"
    /\ repo.runs > 0
    /\ repo.result # "edited"
    /\ \E path \in BindingFiles, body \in {Absent, Edited} :
          /\ repo.files[path] # body
          /\ repo' = [repo EXCEPT !.files[path] = body, !.result = "edited"]
    /\ GenerateStep

NextGenerate ==
    \/ generate_parser_in_directory
    \/ CreateDirs
    \/ LoadGrammar
    \/ GenerateParser
    \/ WriteParserC
    \/ WriteNodeTypes
    \/ WriteHeader
    \/ EnsureIndexJs
    \/ EnsureBindingCc
    \/ EnsureBindingGyp
    \/ GenerateOk
    \/ OwnerEdits

SpecGenerate == InitGenerate /\ [][NextGenerate]_vars

\* ============================================================== properties
\* C1: when next() returns None and no error has been returned, the Source
\* events returned so far are non-empty, the first starts at 0, each starts
\* where the one before ended, and the last ends at |source|; for an empty
\* source no Source event is returned and the first call returns None.
C1_SourceCoverage ==
    /\ ret.kind = "None" /\ ~failed => src_ok /\ src_end = Len(source)
    /\ source = <<>> => ret.kind \in {"new", "None"} /\ src_end = 0

\* A run over two bytes that returned highlight events and then None.
C1_Witness ==
    /\ ret.kind = "None"
    /\ ~failed
    /\ Len(source) = 2
    /\ src_end = 2
    /\ \E a \in 0 .. 2 : boundary[a] # <<>>

\* C2: in every layer the pending ends are nested, the top of
\* highlight_end_stack being the smallest pending end, so that every
\* HighlightEnd closes the most recently opened highlight at its own end; and
\* when the iterator finishes, every HighlightStart has been closed.
C2_BalancedNested ==
    /\ \A i \in 1 .. Len(layers) :
          \A j \in 1 .. Len(layers[i].highlight_end_stack) - 1 :
             layers[i].highlight_end_stack[j] >= layers[i].highlight_end_stack[j + 1]
    /\ ret.kind = "None" /\ ~failed =>
          \A i \in 1 .. Len(layers) : layers[i].highlight_end_stack = <<>>

\* C3: a HighlightStart or HighlightEnd is returned exactly when the Source
\* events returned so far cover the bytes before its anchor offset, never
\* after Source bytes beyond the anchor.
C3_AnchorOrder ==
    ret.kind \in HighlightKinds => src_ok /\ ret.at = src_end

\* C4: of two highlight events anchored at the same offset, a HighlightEnd
\* is returned before a HighlightStart, and of two events of the same kind
\* the one of the deeper layer is returned first.
C4_TieBreaks ==
    ret.kind \in HighlightKinds /\ boundary[ret.at] # <<>> =>
       LET before == boundary[ret.at][1] IN
       /\ ~(before.kind = "HighlightStart" /\ ret.kind = "HighlightEnd")
       /\ before.kind = ret.kind => before.depth >= ret.depth

\* C5: once next() has returned an Err, every later call returns None.
C5_ErrorsTerminal ==
    [][failed => ret'.kind \in {"None", "continue"}]_vars

\* The loop is at its head, past the buffered event.
AtLoopHead == pc = "top" /\ next_event = <<>>

\* The 100th iteration since the last read of the flag begins.
Hundredth == AtLoopHead /\ iter_count = CANCELLATION_CHECK_INTERVAL - 1

Parts(name) == {Split(name)[k] : k \in 1 .. Len(Split(name))}
Candidates(names, capture_name) ==
    {i \in 1 .. Len(names) : Parts(names[i]) \subseteq Parts(capture_name)}

\* C7: the highlight index of a capture name is that of the candidate with
\* the most parts, the earliest in the list among equals, and absent when
\* there is no candidate; with the names function and function.builtin,
\* function.builtin.constructor gets function.builtin and function.method
\* gets function.
C7_BestMatch ==
    registry.loaded =>
       LET names == registry.highlight_names
           candidates == Candidates(names, registry.capture_name)
           best == registry.highlight_index + 1
       IN /\ candidates = {} => registry.highlight_index = None
          /\ candidates # {} =>
                /\ best \in candidates
                /\ \A j \in candidates :
                      \/ Len(Split(names[j])) < Len(Split(names[best]))
                      \/ Len(Split(names[j])) = Len(Split(names[best])) /\ best <= j
          /\ names = DocNames /\ registry.capture_name = <<"f", ".", "b", ".", "c">> =>
                registry.highlight_index = 1
          /\ names = DocNames /\ registry.capture_name = <<"f", ".", "m">> =>
                registry.highlight_index = 0

\* Two candidates with as many parts: the earlier one is stored.
C7_Witness ==
    /\ registry.loaded
    /\ Len(registry.highlight_names) = 2
    /\ Candidates(registry.highlight_names, registry.capture_name) = {1, 2}
    /\ Len(Split(registry.highlight_names[1])) = 2
    /\ Len(Split(registry.highlight_names[2])) = 2
    /\ registry.highlight_names[1] # registry.highlight_names[2]
    /\ registry.highlight_index = 0

Visible(stack) ==
    {i \in 1 .. Len(stack) : \A j \in i + 1 .. Len(stack) : stack[j].inherits}

\* The definitions of `stack` that a reference to `name` at `start` may use.
Usable(stack, name, start) ==
    {p \in UNION {{<<i, k>> : k \in 1 .. Len(stack[i].local_defs)} : i \in 1 .. Len(stack)} :
        /\ stack[p[1]].local_defs[p[2]].name = name
        /\ stack[p[1]].local_defs[p[2]].value_range.e <= start}

\* The definitions of the name whose value has not ended at `start`.
Unusable(stack, name, start) ==
    {p \in UNION {{<<i, k>> : k \in 1 .. Len(stack[i].local_defs)} : i \in 1 .. Len(stack)} :
        /\ stack[p[1]].local_defs[p[2]].name = name
        /\ stack[p[1]].local_defs[p[2]].value_range.e > start}

\* The step that looks a reference up.
Lookup ==
    /\ pc = "locals"
    /\ capture[1].index = local_ref_capture_index
    /\ ~definition_highlight

\* C9: a lookup never gives a definition whose value ends after the start of
\* the reference; it passes over such definitions and gives the newest
\* definition, of the innermost scope, whose value has ended.
C9_ValueRange ==
    [][Lookup =>
         LET stack == layers[1].scope_stack
             start == capture[1].node.s
             usable == {p \in Usable(stack, Text(capture[1].node), start) :
                          p[1] \in Visible(stack)}
             hit == <<resolved'.scope, resolved'.def>>
         IN /\ resolved'.looked
            /\ resolved'.found <=> usable # {}
            /\ resolved'.found =>
                  /\ hit \in usable
                  /\ stack[hit[1]].local_defs[hit[2]].value_range.e <= start
                  /\ \A p \in usable : p[1] < hit[1] \/ (p[1] = hit[1] /\ p[2] <= hit[2])]_vars

\* A reference inside the value of the newest definition of its name has
\* been resolved to an older definition.
C9_Witness ==
    /\ pc = "check"
    /\ resolved.found
    /\ ~resolved.redefined
    /\ \E p \in Unusable(layers[1].scope_stack, Text(capture[1].node), resolved.start) :
          p[1] > resolved.scope \/ (p[1] = resolved.scope /\ p[2] > resolved.def)

\* C10: a lookup gives no definition of a scope below the topmost scope that
\* does not inherit, and it does give a definition of that scope or of the
\* inheriting scopes above it when there is one to use.
C10_ScopeInherits ==
    [][Lookup =>
         LET stack == layers[1].scope_stack
             floor == CHOOSE i \in 1 .. Len(stack) :
                         ~stack[i].inherits /\ \A j \in i + 1 .. Len(stack) : stack[j].inherits
             usable == Usable(stack, Text(capture[1].node), capture[1].node.s)
         IN /\ resolved'.found => resolved'.scope >= floor
            /\ (\E p \in usable : p[1] >= floor) => resolved'.found
            /\ (\A p \in usable : p[1] < floor) => ~resolved'.found]_vars

\* A reference made in a scope that does not inherit has not been resolved
\* although a scope below holds a definition it could use.
C10_Witness ==
    /\ pc = "check"
    /\ resolved.looked
    /\ ~resolved.found
    /\ ~resolved.redefined
    /\ \E p \in Usable(layers[1].scope_stack, Text(capture[1].node), resolved.start) :
          p[1] \notin Visible(layers[1].scope_stack)


\* The bytes of a range, of a list of ranges, and of the content of a node.
Bytes(r) == {b \in 0 .. MaxPos - 1 : r.s <= b /\ b < r.e}
BytesOf(q) == UNION {Bytes(q[k]) : k \in 1 .. Len(q)}
ContentBytes(node, includes_children) ==
    IF includes_children THEN Bytes(node) ELSE Bytes(node) \ BytesOf(node.children)

\* What the claim says of a call that has ended.
Intersected ==
    LET c == intersection IN
    /\ c.state = "returned"
    /\ \A k \in 1 .. Len(c.result) : c.result[k].s < c.result[k].e
    /\ Ascending(c.result)
    /\ BytesOf(c.result) =
          BytesOf(c.parent_ranges)
             \cap UNION {ContentBytes(c.nodes[k], c.includes_children) :
                            k \in 1 .. Len(c.nodes)}

\* C11: for sorted disjoint parent ranges and ascending content nodes,
\* intersect_ranges returns non-empty, ascending, pairwise disjoint ranges
\* whose union is the parent ranges intersected with the nodes' ranges,
\* less the ranges of the nodes' direct children unless they are included.
C11_IntersectRanges == intersection.state \notin {"none", "called"} => Intersected

\* The same of a layer that has a range.
C11_WithParentRange ==
    intersection.state \notin {"none", "called"} /\ intersection.parent_ranges # <<>>
       => Intersected

C11_Witness ==
    /\ intersection.state = "returned"
    /\ Len(intersection.parent_ranges) = 2
    /\ Len(intersection.nodes) = 2
    /\ ~intersection.includes_children
    /\ intersection.nodes[1].children # <<>>
    /\ Len(intersection.result) >= 3

\* C12: when the content ranges of an injection do not meet the ranges of
\* the layer that found it, no layer is created for it (and so no
\* HighlightStart or HighlightEnd of the injected language is returned): no
\* layer has an empty list of ranges.
C12_NoLayerWithoutRanges == \A i \in 1 .. Len(layers) : layers[i].ranges # <<>>

\* C13: the matches of injection patterns that target one injection.site
\* node are processed once: injections are looked for below a site node at
\* most once, the other matches for the site being removed unprocessed.
C13_SiteProcessedOnce == ~discovery.again

\* An entry of `injections` that is to be ignored: its language is missing
\* or not resolved, or it has no content node.
Ignored(g) == g.language \in {"none", "unknown"} \/ g.content = <<>>

\* C15: an injection group whose language is missing or unresolved, or that
\* has no content node, makes no layer and no error; every other group of
\* the site makes its layer, unless the layer of a group before it or its
\* own could not be constructed.
C15_GroupsIgnored ==
    LET d == discovery IN
    \A k \in 1 .. Len(d.groups) :
       IF Ignored(d.groups[k])
       THEN k \notin d.made /\ d.failed_at # k
       ELSE k \in d.made \/ (d.failed_at # 0 /\ d.failed_at <= k)

C15_Witness ==
    /\ Len(discovery.groups) = 2
    /\ discovery.groups[1].content = <<>>
    /\ discovery.made = {2}
    /\ Len(layers) = 2
    /\ ret.kind = "HighlightStart"
    /\ ret.depth = 1

\* C16: within one layer a node captured by several highlight patterns gets
\* at most one HighlightStart (and so one HighlightEnd): the captures on the
\* node that follow the chosen one are consumed without an event.
C16_OneStartPerNode == ~started.twice

\* ------------------------------------------------------------------- C17
\* The stream handed to render() is balanced: no error, every HighlightEnd
\* closes a HighlightStart before it, and every HighlightStart is closed.
RECURSIVE Depths(_, _, _)
Depths(events, k, depth) ==
    IF k > Len(events) THEN <<depth>>
    ELSE <<depth>> \o Depths(events, k + 1,
                             CASE events[k].kind = "HighlightStart" -> depth + 1
                               [] events[k].kind = "HighlightEnd" -> depth - 1
                               [] OTHER -> depth)
BalancedStream(events) ==
    /\ \A k \in 1 .. Len(events) : events[k].kind \notin ErrKinds
    /\ LET d == Depths(events, 1, 0) IN
          /\ \A k \in 1 .. Len(d) : d[k] >= 0
          /\ d[Len(d)] = 0

\* The tags of the html between two byte positions.
OpenTags(html, from, to) ==
    Cardinality({i \in (from + 1) .. to : i < Len(html) /\ html[i] = "<" /\ html[i + 1] = "s"})
CloseTags(html, from, to) ==
    Cardinality({i \in (from + 1) .. to : i < Len(html) /\ html[i] = "<" /\ html[i + 1] = "/"})
LineEnd(r, i) == IF i < Len(r.line_offsets) THEN r.line_offsets[i + 1] ELSE Len(r.html)

\* The text one "\n" of a Source span adds when the highlights `hs` are open.
RECURSIVE Reopened(_, _)
Reopened(hs, k) ==
    IF k > Len(hs) THEN <<>>
    ELSE <<"<", "s", "p", "a", "n">> \o (IF hs[k] = 0 THEN <<>> ELSE <<" ", "c">>)
         \o <<">">> \o Reopened(hs, k + 1)
RECURSIVE Closed(_)
Closed(n) == IF n = 0 THEN <<>> ELSE <<"<", "/", "s", "p", "a", "n", ">">> \o Closed(n - 1)

NewlineSpan ==
    /\ renderer.result = "running"
    /\ renderer.events # <<>>
    /\ renderer.events[1].kind = "Source"
    /\ SubSeq(renderer.source, renderer.events[1].a + 1, renderer.events[1].b) = <<"\n">>

\* C17: for a balanced stream every rendered line has as many <span as
\* </span> tags, and a newline of a Source span closes all the open spans
\* before the newline and reopens them, in the same order with the same
\* highlights, at the start of the next line.
C17_LinesBalanced ==
    /\ [](renderer.result = "Ok" /\ BalancedStream(renderer.input)
            => \A i \in 1 .. Len(renderer.line_offsets) :
                  OpenTags(renderer.html, renderer.line_offsets[i], LineEnd(renderer, i))
                  = CloseTags(renderer.html, renderer.line_offsets[i], LineEnd(renderer, i)))
    /\ [][NewlineSpan =>
            LET h == IF renderer.html # <<>> /\ Last(renderer.html) = "\r"
                     THEN Front(renderer.html) ELSE renderer.html
                hs == renderer.highlights
            IN /\ renderer'.html = h \o Closed(Len(hs)) \o <<"\n">> \o Reopened(hs, 1)
               /\ renderer'.highlights = hs]_vars

\* A balanced stream was rendered into more than one line, with a span
\* open across the line break.
C17_Witness ==
    /\ renderer.result = "Ok"
    /\ BalancedStream(renderer.input)
    /\ Len(renderer.line_offsets) >= 2
    /\ OpenTags(renderer.html, 0, Len(renderer.html)) >= 2
    /\ \E i \in 2 .. Len(renderer.line_offsets) :
          /\ renderer.line_offsets[i] < Len(renderer.html)
          /\ renderer.html[renderer.line_offsets[i] + 1] = "<"
          /\ renderer.html[renderer.line_offsets[i] + 2] = "s"

\* ------------------------------------------------------------------- C18
\* C18: when the iterator yields an Err, render returns that same error at
\* once: it consumes no further event and appends nothing more to html or
\* line_offsets (no final newline either).
C18_ErrorReturnedAtOnce ==
    /\ [][renderer.result = "running" /\ renderer.events # <<>>
            /\ renderer.events[1].kind \in ErrKinds
            => /\ renderer'.result = renderer.events[1].kind
               /\ renderer'.html = renderer.html
               /\ renderer'.line_offsets = renderer.line_offsets
               /\ renderer'.events = Tail(renderer.events)]_vars
    /\ [][renderer.result \in ErrKinds => renderer' = renderer]_vars

\* render() returned an error with text rendered that does not end in a
\* newline and with events left in the iterator.
C18_Witness ==
    /\ renderer.result \in ErrKinds
    /\ renderer.html # <<>>
    /\ Last(renderer.html) # "\n"
    /\ renderer.events # <<>>

\* ------------------------------------------------------------------- C19
\* C19: after a successful render on a new renderer, line_offsets[0] is 0,
\* the entries are strictly increasing, every entry after the first is the
\* position just after a newline byte of html, html ends with a newline, and
\* no entry equals the length of html.
C19_LineOffsets ==
    renderer.result = "Ok" =>
       LET lo == renderer.line_offsets
           html == renderer.html
       IN /\ lo # <<>>
          /\ lo[1] = 0
          /\ \A i \in 1 .. Len(lo) - 1 : lo[i] < lo[i + 1]
          /\ \A i \in 2 .. Len(lo) : lo[i] >= 1 /\ lo[i] <= Len(html) /\ html[lo[i]] = "\n"
          /\ html # <<>>
          /\ Last(html) = "\n"
          /\ \A i \in 1 .. Len(lo) : lo[i] # Len(html)

\* A successful render whose source ended with a newline (the offset after
\* it was dropped) and that has more than one line.
C19_Witness ==
    /\ renderer.result = "Ok"
    /\ Len(renderer.line_offsets) >= 2
    /\ renderer.source # <<>>
    /\ Last(renderer.source) = "\n"
    /\ renderer.input # <<>>
    /\ Last(renderer.input) = [kind |-> "Source", a |-> 0, b |-> Len(renderer.source)]

\* ------------------------------------------------------------------- C20
\* C20, as stated: once load_configuration has succeeded the combined query
\* has no capture disabled, and in the injections-only query every capture
\* whose name is not injection.site is disabled.
C20_Original ==
    registry.loaded =>
       /\ registry.query_disabled = {}
       /\ registry.injections_query_disabled
             = registry.injection_captures \ {"injection.site"}

\* C20, amended: once load_configuration has succeeded the injections-only
\* query has no capture disabled, and in the combined query exactly the
\* captures named by the injections query, other than injection.site, are
\* disabled, in whichever section of the combined query they occur.
C20_CapturesDisabled ==
    registry.loaded =>
       /\ registry.injections_query_disabled = {}
       /\ \A c \in registry.injection_captures \cup registry.other_captures :
             c \in registry.query_disabled
             <=> c \in registry.injection_captures /\ c # "injection.site"

\* A configuration was loaded whose injections query captures a site, a
\* content node and a name the highlights query uses too.
C20_Witness ==
    /\ registry.loaded
    /\ {"injection.site", "injection.content", "comment"} \subseteq registry.injection_captures
    /\ {"comment", "function"} \subseteq registry.other_captures
    /\ registry.query_disabled = {"injection.content", "comment"}

\* ------------------------------------------------------------------- C21
\* C21: the error of a layer that could not be constructed tells the cause:
\* InvalidLanguage when the parser rejected the language, Cancelled when the
\* parse gave no tree because the cancellation flag was set, Unknown when the
\* parse gave no tree for another reason.
C21_ErrorByCause ==
    /\ parser.cause = "language" => parser.error = "Err(InvalidLanguage)"
    /\ parser.cause = "cancelled" => parser.error = "Err(Cancelled)"
    /\ parser.cause = "other" => parser.error = "Err(Unknown)"

\* ------------------------------------------------------------------- C22
\* The section of the caller's input in which the first rejected byte lies,
\* and the offset of that byte in the section.
ErrorInSection ==
    IF Query_new(registry.injection_query) # None
    THEN Query_new(registry.injection_query)
    ELSE IF Query_new(registry.locals_query) # None
    THEN Query_new(registry.locals_query)
    ELSE Query_new(registry.highlights_query)

\* C22: when load_configuration fails because a query does not compile, the
\* offset of the query error is the offset of the error in the section
\* (injections, locals or highlights) of the caller's input in which it lies.
C22_OffsetInSection ==
    registry.query_error # None => registry.query_error = ErrorInSection

\* ------------------------------------------------------------------- C23
\* C23: whenever next() selects layers[0], no other layer has a smaller sort
\* key (layers without a sort key are left out of the comparison).
C23_FrontIsLeast ==
    AtLoopHead /\ layers # <<>> /\ sort_key(layers[1]) # <<>> =>
       \A i \in 2 .. Len(layers) :
          sort_key(layers[i]) # <<>> => ~KeyLess(sort_key(layers[i]), sort_key(layers[1]))

\* The same, for the states in which every layer has a sort key and no error
\* was returned.
C23_AmongKeyed ==
    (\A i \in 1 .. Len(layers) : sort_key(layers[i]) # <<>>) /\ ~failed => C23_FrontIsLeast

\* ------------------------------------------------------------------- C24
\* C24: a layer without a sort key (no capture left, no pending highlight
\* end) is retired: between two calls of next(), none of which returned an
\* error, no such layer is in layers.
C24_AbsentKeyRetired ==
    pc = "top" /\ ret.kind \notin {"new", "continue"} /\ ~failed =>
       \A i \in 1 .. Len(layers) : sort_key(layers[i]) # <<>>

\* ------------------------------------------------------------------- C25
\* The pending highlight ends of all the layers.
RECURSIVE PendingEnds(_)
PendingEnds(ls) ==
    IF ls = <<>> THEN 0 ELSE Len(ls[1].highlight_end_stack) + PendingEnds(Tail(ls))

\* The pass over a capture ends: the step that emits its HighlightStart or not.
PassEnds == pc = "skip" /\ pc' = "top"

\* That step emits a HighlightStart for the capture.
StartEmitted ==
    /\ \/ ret'.kind = "HighlightStart"
       \/ ret'.kind = "Source" /\ next_event' # <<>> /\ next_event'[1].kind = "HighlightStart"
    /\ last_highlight_range' = <<capture[1].node.s, capture[1].node.e, layers[1].depth>>
    /\ PendingEnds(layers') = PendingEnds(layers) + 1

\* That step emits nothing.
NothingEmitted ==
    /\ ret'.kind = "continue"
    /\ next_event' = <<>>
    /\ last_highlight_range' = last_highlight_range
    /\ PendingEnds(layers') = PendingEnds(layers)
    /\ started' = started

\* The HighlightStart emitted last was for the range of the capture, in a
\* deeper layer.
DeeperPainted ==
    /\ last_highlight_range # <<>>
    /\ last_highlight_range[1] = capture[1].node.s
    /\ last_highlight_range[2] = capture[1].node.e
    /\ last_highlight_range[3] > layers[1].depth

\* C25: a capture whose range is that of the HighlightStart emitted last, in
\* a deeper layer, emits no HighlightStart and pushes no pending end; in every
\* other case a capture that has a highlight and is not kept from a local
\* variable emits its HighlightStart; last_highlight_range is the range and
\* depth of the HighlightStart emitted last.
C25_DuplicateSuppressed ==
    [][/\ PassEnds /\ DeeperPainted => NothingEmitted
       /\ PassEnds /\ ~DeeperPainted
             /\ OptionOr(reference_highlight, highlight_indices(capture[1].index)) # None
             /\ ~((definition_highlight \/ reference_highlight # None)
                   /\ non_local_variable_patterns(capture[1].pattern))
          => StartEmitted
       /\ ~PassEnds => last_highlight_range' = last_highlight_range]_vars

\* A capture with a highlight is being passed over because a deeper layer
\* has just started a highlight on its range.
C25_Witness ==
    /\ pc = "skip"
    /\ ~has_highlight
    /\ DeeperPainted
    /\ highlight_indices(capture[1].index) # None
    /\ ~non_local_variable_patterns(capture[1].pattern)

\* ------------------------------------------------------------------- C26
\* The node of the capture was resolved as a local definition, or as a
\* reference to a definition with a highlight.
LocalNode ==
    \/ definition_highlight
    \/ resolved.looked /\ resolved.found /\ resolved.highlight # None /\ ~resolved.redefined

\* The capture is that of the pattern with the negative `local` property.
MarkedNonLocal == capture[1].index = VariableCapture

\* The stream has another capture on the node of the capture.
SameNodeFollows ==
    layers[1].captures # <<>> /\ layers[1].captures[1].node = capture[1].node

\* C26: on a node resolved as a local definition or as a reference to a
\* highlighted definition a capture of a non-local pattern is skipped: the
\* next capture on the same node takes its place, and when there is none the
\* node gets no HighlightStart; the capture that is not so marked gets the
\* HighlightStart; on any other node a non-local pattern gets its
\* HighlightStart like any other.
C26_NonLocalSkipped ==
    [][pc = "skip" =>
         /\ StartEmitted /\ PassEnds => ~(LocalNode /\ MarkedNonLocal)
         /\ LocalNode /\ MarkedNonLocal /\ has_highlight =>
               /\ pc' = "skip"
               /\ IF SameNodeFollows
                  THEN capture' = layers[1].captures /\ has_highlight'
                  ELSE capture' = capture /\ ~has_highlight'
         /\ ~has_highlight => PassEnds /\ NothingEmitted
         /\ has_highlight /\ ~MarkedNonLocal
               /\ OptionOr(reference_highlight, highlight_indices(capture[1].index)) # None
            => PassEnds /\ StartEmitted
         /\ has_highlight /\ MarkedNonLocal /\ ~LocalNode => PassEnds /\ StartEmitted]_vars

\* A capture of the non-local pattern on a local node was skipped, and no
\* other capture on the node followed it.
C26_Witness ==
    /\ pc = "skip"
    /\ LocalNode
    /\ MarkedNonLocal
    /\ ~has_highlight
    /\ last_highlight_range = <<>>

\* ------------------------------------------------------------------- C27
\* C27: a HighlightStart is emitted, and a pending end pushed, only at the
\* end of the pass over a capture of a highlights pattern; a capture of a
\* locals pattern never causes one by itself.
C27_StartFromHighlightPattern ==
    [][/\ PassEnds /\ ~NothingEmitted => capture[1].pattern >= highlights_pattern_index
       /\ ~PassEnds => /\ PendingEnds(layers') <= PendingEnds(layers)
                       /\ started' = started]_vars

\* ------------------------------------------------------------------- C28
\* The scopes of a stack that have not ended before `start`.
NotEnded(stack, start) == SelectSeq(stack, LAMBDA x : x.range.e >= start)

\* C28: every layer's scope_stack is non-empty with the root scope [0,
\* usize::MAX), inherits = false, at the bottom; when a capture is processed
\* the scopes that stay are those whose end is not before the capture's
\* start: a scope is popped exactly when the start is greater than its end.
C28_ScopeStack ==
    /\ [](\A i \in 1 .. Len(layers) :
             /\ layers[i].scope_stack # <<>>
             /\ layers[i].scope_stack[1].range = [s |-> 0, e |-> USIZE_MAX]
             /\ ~layers[i].scope_stack[1].inherits)
    /\ [][AtLoopHead /\ CaptureDue /\ layers[1].captures[1].pattern >= locals_pattern_index
            => layers'[1].scope_stack
                 = NotEnded(layers[1].scope_stack, layers[1].captures[1].node.s)]_vars

\* C29: the root layer has depth 0 and the single range [0, usize::MAX);
\* every layer made for an injection has the depth of the layer that found
\* the site plus 1 and the ranges that intersect_ranges gives for that
\* layer's ranges and the entry's content nodes, also when the site makes
\* several layers.
RootRanges == <<[s |-> 0, e |-> USIZE_MAX]>>

C29_DepthAndRanges ==
    /\ ret.kind = "new" => Len(layers) = 1 /\ layers[1].depth = 0
    /\ \A i \in 1 .. Len(layers) : layers[i].depth = 0 => layers[i].ranges = RootRanges
    /\ \A i \in 1 .. Len(discovery.new_layers) :
          LET x == discovery.new_layers[i]
              g == discovery.groups[x.entry]
              by == discovery.by[1]
          IN /\ x.depth = by.depth + 1
             /\ x.ranges = intersect_ranges(by.ranges, g.content, g.include_children)

\* A layer of depth 1 has found a site that made two layers, both in
\* `layers`, with the ranges of the site's node.
C29_Witness ==
    /\ Len(discovery.new_layers) = 2
    /\ discovery.by[1].depth = 1
    /\ discovery.new_layers[2].ranges # <<>>
    /\ discovery.new_layers[2].ranges # RootRanges
    /\ Cardinality({i \in 1 .. Len(layers) : layers[i].depth = 2}) = 2

\* C30: every layer in `layers` has a ranges list that is non-empty, sorted
\* and pairwise disjoint, so that the `expect` of intersect_ranges never
\* fails, in whatever layer an injection is found.
C30_ExpectHolds == ~discovery.panicked

C30_RangesWellFormed ==
    /\ \A i \in 1 .. Len(layers) : layers[i].ranges # <<>> /\ Ascending(layers[i].ranges)
    /\ C30_ExpectHolds

\* The same of the layers that are not made from a content node that its
\* children cover.
C30_SortedDisjoint == \A i \in 1 .. Len(layers) : Ascending(layers[i].ranges)

\* The emit_event call that the step of next() from this state makes, as
\* <<offset, kind of the event>>; <<>> if it makes none.
EmitCall ==
    IF AtLoopHead /\ ~(PollDue /\ cancellation_flag # 0) /\ ~discovery.panicked
       /\ layers # <<>>
    THEN LET layer == layers[1] IN
         IF layer.captures = <<>>
         THEN IF layer.highlight_end_stack # <<>>
              THEN <<Last(layer.highlight_end_stack), "HighlightEnd">>
              ELSE <<Len(source), "None">>
         ELSE IF layer.highlight_end_stack # <<>>
                 /\ Last(layer.highlight_end_stack) <= layer.captures[1].node.s
              THEN <<Last(layer.highlight_end_stack), "HighlightEnd">>
              ELSE <<>>
    ELSE IF pc = "skip" /\ ~SkipCondition /\ has_highlight
            /\ OptionOr(reference_highlight, highlight_indices(capture[1].index)) # None
         THEN <<capture[1].node.s, "HighlightStart">>
         ELSE <<>>

\* A step of next(), not a store into the cancellation flag by its owner.
IterStep == cancellation_flag' = cancellation_flag

\* C31: emit_event(offset, event) with byte_offset < offset returns
\* Source{byte_offset, offset}, sets byte_offset to offset and buffers the
\* event, which the very next call returns before any capture is processed;
\* otherwise it returns the event at once and leaves byte_offset alone.  The
\* buffer holds at most one event, which is never overwritten or dropped;
\* byte_offset never decreases and never exceeds the length of the source.
C31_EmitEvent ==
    [][/\ byte_offset <= byte_offset' /\ byte_offset' <= Len(source)
       /\ Len(next_event) <= 1 /\ Len(next_event') <= 1
       /\ next_event # <<>> /\ IterStep =>
             /\ ret' = next_event[1]
             /\ next_event' = <<>>
             /\ layers' = layers
             /\ byte_offset' = byte_offset
       /\ EmitCall # <<>> /\ IterStep =>
             IF byte_offset < EmitCall[1]
             THEN /\ ret' = SourceEvent(byte_offset, EmitCall[1])
                  /\ byte_offset' = EmitCall[1]
                  /\ IF EmitCall[2] = "None" THEN next_event' = <<>>
                     ELSE /\ Len(next_event') = 1
                          /\ next_event'[1].kind = EmitCall[2]
                          /\ next_event'[1].at = EmitCall[1]
             ELSE /\ ret'.kind = EmitCall[2]
                  /\ EmitCall[2] # "None" => ret'.at = EmitCall[1]
                  /\ byte_offset' = byte_offset
                  /\ next_event' = <<>>
       /\ EmitCall = <<>> /\ next_event = <<>> => next_event' = <<>>]_vars

\* A HighlightStart is buffered behind the Source event just returned for
\* the text before it, while layers[0] has a capture to process and the
\* cancellation flag is set.
C31_Witness ==
    /\ next_event # <<>>
    /\ next_event[1].kind = "HighlightStart"
    /\ ret.kind = "Source"
    /\ ret.b = byte_offset
    /\ byte_offset > 0
    /\ layers # <<>>
    /\ layers[1].captures # <<>>
    /\ cancellation_flag = 1

\* The section of the combined query in which its pattern p (from 0) starts.
SectionOf(p) ==
    LET start == PatternStarts(registry.injection_query \o registry.locals_query
                                  \o registry.highlights_query)[p + 1]
    IN IF start < Len(registry.injection_query) THEN "injections"
       ELSE IF start < Len(registry.injection_query) + Len(registry.locals_query)
       THEN "locals"
       ELSE "highlights"

\* The patterns of the combined query.
CombinedPatterns ==
    0 .. Len(PatternStarts(registry.injection_query \o registry.locals_query
                              \o registry.highlights_query)) - 1

\* C32: after load_configuration, locals_pattern_index is the number of
\* patterns of the combined query that start before the locals section,
\* highlights_pattern_index the number that start before the highlights
\* section, locals_pattern_index <= highlights_pattern_index <= pattern
\* count; so pattern p is an injection pattern iff p < locals_pattern_index,
\* a local pattern iff locals_pattern_index <= p < highlights_pattern_index,
\* and a highlight pattern otherwise.
C32_PatternIndices ==
    registry.loaded /\ registry.query_error = None =>
       LET l == registry.locals_pattern_index
           h == registry.highlights_pattern_index
       IN /\ l = Cardinality({p \in CombinedPatterns : SectionOf(p) = "injections"})
          /\ h = Cardinality({p \in CombinedPatterns : SectionOf(p) # "highlights"})
          /\ l <= h
          /\ h <= Cardinality(CombinedPatterns)
          /\ \A p \in CombinedPatterns :
                /\ SectionOf(p) = "injections" <=> p < l
                /\ SectionOf(p) = "locals" <=> l <= p /\ p < h
                /\ SectionOf(p) = "highlights" <=> h <= p

\* Queries with a pattern in each section, none at the first byte of the
\* combined query.
C32_Witness ==
    /\ registry.loaded
    /\ registry.injection_query = <<" ", "p">>
    /\ registry.locals_query = <<"p", " ">>
    /\ registry.highlights_query = <<"p", "p">>
    /\ registry.locals_pattern_index = 1
    /\ registry.highlights_pattern_index = 2

\* C33: next() returns None only when `layers` is empty and byte_offset is
\* the length of the source, never while a layer still has a capture or a
\* highlight to end (stated of the calls before which no error was returned).
C33_NoneIsFinal ==
    ret.kind = "None" /\ ~failed =>
       /\ layers = <<>>
       /\ byte_offset = Len(source)

\* None is returned only once no layer has a capture or a highlight to end.
C33_NothingPending ==
    ret.kind = "None" /\ ~failed =>
       \A i \in 1 .. Len(layers) :
          layers[i].captures = <<>> /\ layers[i].highlight_end_stack = <<>>

\* None is returned only at the end of the source.
C33_AtEndOfSource == ret.kind = "None" => byte_offset = Len(source)

\* Once None is returned, every later call returns None.
C33_Fused == [](ret.kind = "None" => [](ret.kind \in {"None", "continue"}))

\* Once None is returned with no layer left, every later call returns None.
C33_FusedWhenEmpty ==
    [](ret.kind = "None" /\ layers = <<>> => [](ret.kind \in {"None", "continue"}))

\* What is left to consume: the captures the streams can still deliver, the
\* highlights to end and the layers to retire.
Remaining ==
    LET RECURSIVE Sum(_)
        Sum(i) == IF i > Len(layers) THEN 0
                  ELSE layers[i].fuel + Len(layers[i].captures)
                         + Len(layers[i].highlight_end_stack) + 1 + Sum(i + 1)
    IN Sum(1)

\* C34: with finite capture streams, injections nested to a finite depth
\* and no cancellation, every call of next() returns after finitely many
\* passes of the loop, and repeated calls eventually return None.
C34_Terminates ==
    /\ []<>(ret.kind # "continue")
    /\ <>(ret.kind = "None")

\* layers[0] shows an injection site that is to be processed now.
SiteDue ==
    /\ AtLoopHead
    /\ CaptureDue
    /\ layers[1].captures[1].pattern < locals_pattern_index
    /\ layers[1].captures[1].index = injection_site_capture_index

\* A pass of the loop that looks for no injection consumes a capture of
\* layers[0], ends a highlight or retires a layer when it begins, and adds
\* nothing afterwards unless it returns an event.
C34_PassConsumes ==
    [][/\ AtLoopHead /\ layers # <<>> /\ ~SiteDue => Remaining' < Remaining
       /\ pc # "top" /\ ret'.kind = "continue" => Remaining' <= Remaining]_vars

\* Unless the iterator panics, the calls return and repeated calls
\* eventually return None.
C34_TerminatesUnlessPanic ==
    \/ <>discovery.panicked
    \/ C34_Terminates

\* A step of a run of the generator.
RunStep == repo.pc \notin {"idle", "none"}

\* C35: a run of the generator never changes a binding file (index.js,
\* src/binding.cc, binding.gyp) that exists: ensure_file writes only when
\* the path does not exist, and otherwise leaves the content alone and
\* returns Ok; src/parser.c, src/node-types.json and
\* src/tree_sitter/parser.h are rewritten on every successful run.
C35_BindingsKept ==
    /\ [][RunStep =>
             /\ \A path \in BindingFiles :
                   repo.files[path] # Absent => repo'.files[path] = repo.files[path]
             /\ repo.pc \in {"index.js", "binding.cc", "binding.gyp"}
                   /\ repo.files[IF repo.pc = "binding.cc" THEN "src/binding.cc"
                                  ELSE repo.pc] # Absent
                   => repo'.result # "Err" /\ repo'.files = repo.files]_vars
    /\ [](repo.pc = "idle" /\ repo.result = "Ok" =>
             /\ ParserFiles \subseteq repo.written
             /\ repo.files["src/parser.c"] = Rendered("parser.c", repo.language_name)
             /\ repo.files["src/node-types.json"]
                   = Rendered("node-types.json", repo.language_name)
             /\ repo.files["src/tree_sitter/parser.h"] = Header(repo.next_abi)
             /\ \A path \in BindingFiles :
                   /\ path \in repo.written <=> repo.start[path] = Absent
                   /\ repo.start[path] # Absent => repo.files[path] = repo.start[path])

\* The second run in a directory, for another grammar, has succeeded:
\* index.js, edited by the owner after the first run, and src/binding.cc,
\* written by the first run, are as they were, binding.gyp, which was
\* removed, is written, and parser.c is rewritten.
C35_Witness ==
    /\ repo.pc = "idle"
    /\ repo.result = "Ok"
    /\ repo.runs = 2
    /\ repo.language_name = "h"
    /\ repo.files["index.js"] = Edited
    /\ repo.files["src/binding.cc"] = Rendered("binding.cc", "g")
    /\ repo.start["binding.gyp"] = Absent
    /\ repo.files["binding.gyp"] = Rendered("binding.gyp", "h")
    /\ repo.start["src/parser.c"] = Rendered("parser.c", "g")
    /\ repo.files["src/parser.c"] = Rendered("parser.c", "h")

=========================================================================
